---- MODULE Spec2Model ----
(***************************************************************************)
(* State-machine model of the protocol engine of tickbh/dmeng:             *)
(*   - Body      (src/src/body.rs): streaming body pipeline, semaphore     *)
(*     gate, (de)compression and chunk framing;                            *)
(*   - IoBuffer  (src/src/http1/io.rs): HTTP/1 connection buffer.          *)
(*                                                                         *)
(* Bytes are small naturals.  A payload byte is 1..9.  The byte stream a   *)
(* Body is fed is Stream == <<1,..,StreamLen>>, so loss, duplication and   *)
(* reordering are all visible in the output.                               *)
(* An Option<T> is a sequence of length 0 (None) or 1 (Some(v)).           *)
(***************************************************************************)
EXTENDS Integers, Sequences, FiniteSets, TLC

VARIABLES
    body,       \* the Body under test (body.rs:276-292), a record
    src_left,   \* bytes the producer (sender side of the channel) has not sent yet
    pc,         \* position of the Body's caller: "idle", or inside wait_all / read_all
    out,        \* bytes handed to the consumer by the read operations, in order
    last,       \* the last Body operation and what it returned
    io,         \* the HTTP/1 IoBuffer (io.rs:29-64), a record
    net,        \* the socket: bytes in flight towards the server and bytes written
    hist,       \* observation log of the IoBuffer's caller
    h2          \* the HTTP/2 Control (control.rs:52-74), its codec, peer and caller

vars == <<body, src_left, pc, out, last, io, net, hist, h2>>
bodyVars == <<body, src_left, pc, out, last>>
ioVars == <<io, net, hist>>

----------------------------------------------------------------------------
(* Bounds *)

StreamLen == 4          \* length of the byte stream fed to a Body
MaxChunk == 2           \* largest chunk a producer sends in one message
SmallReadBuf == 1       \* the value set_max_read_buf is called with
CacheBufLen == 2        \* InnerReceiver.cache_buf length (4096 in body.rs:99), scaled
MaxCap == 2             \* largest ReadBuf capacity handed to poll_read
MaxK == 2               \* polls of the source that are ready before the limiter/file suspends
MaxReqs == 2            \* requests pipelined on one connection
MaxWrite == 3           \* most bytes the socket accepts in one write
MaxSeg == 3             \* most bytes that arrive from the peer at once
MaxReadAhead == 2       \* bytes the peer sends right after the HTTP/2 preface
MAIGC_LEN == 3          \* length of the HTTP/2 preface (24 in webparse), scaled
BODY_CHANNEL_CAP == 2   \* capacity of the body channel (30 in build_body), scaled

(* Program constants *)

DEFAULT_MAX_READ_BUF == 10485760
SEM_PERMITS == 10
COMPRESS_METHOD_NONE == 0
COMPRESS_METHOD_GZIP == 1
COMPRESS_METHOD_DEFLATE == 2
COMPRESS_METHOD_BROTLI == 3
COMPRESS_METHOD_UNKNOWN == 9    \* a method no match arm knows
USIZE_MAX == 2147483647         \* stands for usize::MAX

----------------------------------------------------------------------------
(* Sequence helpers *)

Min(a, b) == IF a < b THEN a ELSE b
Take(s, n) == SubSeq(s, 1, Min(n, Len(s)))
Drop(s, n) == SubSeq(s, Min(n, Len(s)) + 1, Len(s))
IsPrefix(p, s) == Len(p) <= Len(s) /\ Take(s, Len(p)) = p
IsSuffix(p, s) == Len(p) <= Len(s) /\ Drop(s, Len(s) - Len(p)) = p

RECURSIVE Flatten(_)
Flatten(q) == IF q = <<>> THEN <<>> ELSE q[1].bin \o Flatten(Tail(q))

Stream == [i \in 1..StreamLen |-> i]

(* Bind(e, LAMBDA x : f(x)) is f(e): a local binding, `let x = e;` *)
Bind(v, Op(_)) == Op(v)

----------------------------------------------------------------------------
(* Wire formats.  A compressed stream of method m is                       *)
(*   Hdr(m), Enc(m, b1), Enc(m, b2), ..., Trl(m)                           *)
(* and a chunk of n bytes is ChunkHead(n) followed by the n bytes.         *)

Hdr(m) == 100 + m
Trl(m) == 200 + m
Enc(m, x) == 10 * m + x
IsEnc(m, t) == t > 10 * m /\ t < 10 * m + 10
ChunkHead(n) == 1000 + n

EncSeq(m, data) == [i \in 1..Len(data) |-> Enc(m, data[i])]

(* Helper::encode_chunk_data: size line, data, CRLF; "0\r\n\r\n" for no data *)
encode_chunk_data(buffer, data) == buffer \o <<ChunkHead(Len(data))>> \o data

(* the streaming decoder behind read::GzDecoder / DeflateDecoder / Decompressor *)
RECURSIVE Inflate(_, _, _, _)
Inflate(m, st, in, acc) ==
    IF in = <<>> THEN [st |-> st, out |-> acc, ok |-> TRUE]
    ELSE LET t == Head(in) IN
         CASE st = "start" /\ t = Hdr(m) -> Inflate(m, "data", Tail(in), acc)
           [] st = "data" /\ IsEnc(m, t) -> Inflate(m, "data", Tail(in), Append(acc, t - 10 * m))
           [] st = "data" /\ t = Trl(m) -> Inflate(m, "done", Tail(in), acc)
           [] st = "done" -> [st |-> "done", out |-> acc, ok |-> TRUE]
           [] OTHER -> [st |-> "bad", out |-> <<>>, ok |-> FALSE]

----------------------------------------------------------------------------
(* Body: construction *)

(* file is what the file holds from its read position on.                  *)
(* broken: reading the file fails from now on.  History of a file source:  *)
(* asked is what set_start_end was called with, avail the bytes the file   *)
(* held from start_pos on, delivered the bytes handed out, reads the number *)
(* of reads, ended whether a chunk carried is_end                          *)
NoReceiver ==
    [kind |-> "none", q |-> <<>>, closed |-> TRUE, file |-> <<>>, data_size |-> 0,
     broken |-> FALSE,
     asked |-> <<>>, avail |-> 0, delivered |-> 0, reads |-> 0, ended |-> FALSE]

set_start_end(b, start_pos, end_pos) ==
    [b EXCEPT !.rx.data_size = end_pos - start_pos,
              !.rx.file = Drop(@, start_pos),
              !.rx.asked = <<start_pos, end_pos>>,
              !.rx.avail = Len(Drop(b.rx.file, start_pos))]

BodyFields(permits) ==
    [ rx |-> NoReceiver,
      sem |-> permits,
      permit |-> FALSE,
      over_limit |-> FALSE,
      origin_buf |-> <<>>,
      read_buf |-> <<>>,
      cache_body_data |-> <<>>,
      origin_compress_method |-> COMPRESS_METHOD_NONE,
      origin_set |-> COMPRESS_METHOD_NONE,      \* history: the method the setter was called with
      now_compress_method |-> COMPRESS_METHOD_NONE,
      enc_open |-> FALSE,
      dec_in |-> <<>>,
      dec_st |-> "start",
      dec_dropped |-> FALSE,
      is_chunked |-> FALSE,
      is_end |-> TRUE,
      is_process_end |-> FALSE,
      max_read_buf |-> DEFAULT_MAX_READ_BUF,
      rate_limit |-> FALSE,
      none_seen |-> <<>>,
      decode_failed |-> FALSE ]                 \* history: decode_read_data returned Err                      \* history: the source when poll_recv gave None

(* mutant: Semaphore::new(1) *)
BodyDefault_OnePermit == BodyFields(1)

BodyDefault == BodyFields(SEM_PERMITS)

BodyOnly(binary) == [BodyDefault EXCEPT !.origin_buf = <<binary>>]

BodyNew(binary, end) ==
    [BodyDefault EXCEPT
        !.rx = [NoReceiver EXCEPT !.kind = "chan", !.closed = FALSE],
        !.origin_buf = <<binary>>,
        !.is_end = end]

BodyNewFile(content, size) ==
    [BodyDefault EXCEPT
        !.rx = [NoReceiver EXCEPT !.kind = "file", !.file = content, !.data_size = size],
        !.is_end = FALSE]

receiver_is_none(b) == b.rx.kind = "none"

----------------------------------------------------------------------------
(* Body: the semaphore gate *)

get_now_compress(b) ==
    IF b.origin_compress_method = b.now_compress_method THEN 0 ELSE b.now_compress_method

(* dropping the OwnedSemaphorePermit hands the permit back to the semaphore *)
check_over_limit(b) ==
    IF b.read_buf # <<>> /\ Len(b.read_buf[1]) >= b.max_read_buf
    THEN IF b.permit
         THEN [b EXCEPT !.permit = FALSE, !.sem = b.sem + 1, !.over_limit = TRUE]
         ELSE b
    ELSE b

NotifyWith(b, only_at_zero) ==
    IF b.permit THEN b
    ELSE IF b.sem = 0 THEN [b EXCEPT !.sem = 1, !.over_limit = FALSE]
    ELSE IF only_at_zero THEN b
    ELSE [b EXCEPT !.sem = @ + 1]

(* mutant: a permit is added whenever the Body holds none *)
notify_some_read_Always(b) == NotifyWith(b, FALSE)

notify_some_read(b) == NotifyWith(b, TRUE)

inner_poll_sem_ready(b) ==
    IF b.permit THEN [b |-> b, r |-> "ready"]
    ELSE IF b.sem = 0 THEN [b |-> b, r |-> "pending"]
    ELSE [b |-> [b EXCEPT !.permit = TRUE, !.sem = b.sem - 1], r |-> "ready"]

----------------------------------------------------------------------------
(* Body: decode stage *)

PutReadBuf(b, data) == [b EXCEPT !.read_buf = << b.read_buf[1] \o data >>]

(* read_all_data drains what the decoder can produce from its input buffer *)
read_all_data(b, m) ==
    Bind(Inflate(m, b.dec_st, b.dec_in, <<>>), LAMBDA r :
        IF r.ok
        THEN [b |-> PutReadBuf([b EXCEPT !.dec_st = r.st, !.dec_in = <<>>], r.out),
              ok |-> TRUE, n |-> Len(r.out)]
        ELSE [b |-> [b EXCEPT !.dec_st = "bad"], ok |-> FALSE, n |-> 0])

(* history: a chunk with bytes in it went past the decompressor *)
NotWritten(b, data) == [b EXCEPT !.dec_dropped = @ \/ data # <<>>]

decode_read_data(b, data) ==
    Bind(IF b.read_buf = <<>> THEN [b EXCEPT !.read_buf = << <<>> >>] ELSE b, LAMBDA b0 :
    IF b0.origin_compress_method # COMPRESS_METHOD_NONE
    THEN IF b0.origin_compress_method = b0.now_compress_method
         THEN [b |-> PutReadBuf(b0, data), ok |-> TRUE, n |-> 0]
         ELSE Bind(CASE b0.origin_compress_method = COMPRESS_METHOD_GZIP ->
                            read_all_data([b0 EXCEPT !.dec_in = b0.dec_in \o data], COMPRESS_METHOD_GZIP)
                      [] b0.origin_compress_method = COMPRESS_METHOD_DEFLATE ->
                            read_all_data(NotWritten(b0, data), COMPRESS_METHOD_DEFLATE)
                      [] b0.origin_compress_method = COMPRESS_METHOD_BROTLI ->
                            read_all_data(NotWritten(b0, data), COMPRESS_METHOD_BROTLI)
                      [] OTHER -> [b |-> b0, ok |-> FALSE, n |-> 0],
                   LAMBDA d :
              IF ~d.ok THEN [d EXCEPT !.b.decode_failed = TRUE]
              ELSE [b |-> notify_some_read(
                              IF d.b.is_end
                              THEN [d.b EXCEPT !.origin_compress_method = COMPRESS_METHOD_NONE]
                              ELSE d.b),
                    ok |-> TRUE, n |-> d.n])
    ELSE [b |-> PutReadBuf(b0, data), ok |-> TRUE, n |-> Len(data)])

(* cache_buffer swallows a decode error: .ok().unwrap_or(0) *)
cache_buffer(b, buf) ==
    Bind(decode_read_data(IF b.read_buf = <<>> THEN [b EXCEPT !.read_buf = << <<>> >>] ELSE b, buf),
         LAMBDA d : [b |-> d.b, n |-> IF d.ok THEN d.n ELSE 0])

----------------------------------------------------------------------------
(* Body: encode stage *)

inner_encode_write_data(buffer, data, is_chunked) ==
    IF is_chunked THEN encode_chunk_data(buffer, data) ELSE buffer \o data

(* one compressor arm of encode_write_data; the three arms are the same code *)
EncodeCompressed(b, m, data) ==
    IF Len(data) = 0
    THEN LET value == (IF b.enc_open THEN <<>> ELSE <<Hdr(m)>>) \o <<Trl(m)>>
             c1 == IF Len(value) > 0
                   THEN inner_encode_write_data(b.cache_body_data, value, b.is_chunked)
                   ELSE b.cache_body_data
             c2 == IF b.is_chunked THEN encode_chunk_data(c1, data) ELSE c1
         IN [b EXCEPT !.enc_open = FALSE, !.cache_body_data = c2]
    ELSE LET produced == (IF b.enc_open THEN <<>> ELSE <<Hdr(m)>>) \o EncSeq(m, data)
         IN [b EXCEPT !.enc_open = TRUE,
                      !.cache_body_data =
                          IF Len(produced) > 0
                          THEN inner_encode_write_data(b.cache_body_data, produced, b.is_chunked)
                          ELSE b.cache_body_data]

encode_write_data(b, data) ==
    LET m == get_now_compress(b) IN
    IF m \in {COMPRESS_METHOD_GZIP, COMPRESS_METHOD_DEFLATE, COMPRESS_METHOD_BROTLI}
    THEN EncodeCompressed(b, m, data)
    ELSE [b EXCEPT !.cache_body_data = inner_encode_write_data(b.cache_body_data, data, b.is_chunked)]

----------------------------------------------------------------------------
(* Body: pulling from the source *)

(* InnerReceiver::poll_recv / recv.  k = 0 on a file: the file read is not ready. *)
PollRecvWith(b, k, capped) ==
    CASE b.rx.kind = "chan" ->
            IF b.rx.q # <<>>
            THEN [b |-> [b EXCEPT !.rx.q = Tail(b.rx.q)], r |-> "some",
                  is_end |-> Head(b.rx.q).is_end, bin |-> Head(b.rx.q).bin]
            ELSE IF b.rx.closed
                 THEN [b |-> b, r |-> "none", is_end |-> FALSE, bin |-> <<>>]
                 ELSE [b |-> b, r |-> "pending", is_end |-> FALSE, bin |-> <<>>]
      [] b.rx.kind = "file" ->
            IF k = 0 THEN [b |-> b, r |-> "pending", is_end |-> FALSE, bin |-> <<>>]
            ELSE IF b.rx.broken THEN [b |-> b, r |-> "none", is_end |-> FALSE, bin |-> <<>>]
            ELSE LET size == Min(CacheBufLen, Len(b.rx.file))
                     end == size < CacheBufLen \/ b.rx.data_size <= size
                     read == IF capped THEN Min(b.rx.data_size, size) ELSE size
                 IN [b |-> [b EXCEPT !.rx.file = Drop(b.rx.file, size),
                                     !.rx.data_size = b.rx.data_size - read,
                                     !.rx.delivered = @ + read,
                                     !.rx.reads = @ + 1,
                                     !.rx.ended = @ \/ end],
                     r |-> "some", is_end |-> end, bin |-> Take(b.rx.file, read)]
      [] OTHER -> [b |-> b, r |-> "none", is_end |-> FALSE, bin |-> <<>>]

(* mutant: the chunk is not cut at the remaining size *)
poll_recv_NoCap(b, k) == PollRecvWith(b, k, FALSE)

poll_recv(b, k) == PollRecvWith(b, k, TRUE)

(* the loop of inner_poll_read (body.rs:716-744) *)
RECURSIVE PullLoopWith(_, _, _, _)
PullLoopWith(b, k, has_change, end_on_none) ==
    IF b.rate_limit /\ k = 0 THEN [b |-> b, has_change |-> has_change]
    ELSE Bind(poll_recv(b, k), LAMBDA p :
            CASE p.r = "some" ->
                    Bind(cache_buffer([p.b EXCEPT !.is_end = p.is_end], p.bin).b, LAMBDA b1 :
                        IF b1.is_end THEN [b |-> b1, has_change |-> TRUE]
                        ELSE PullLoopWith(b1, IF k > 0 THEN k - 1 ELSE 0, TRUE, end_on_none))
              [] p.r = "none" -> [b |-> [b EXCEPT !.is_end = @ \/ end_on_none,
                                                  !.none_seen = <<b.rx>>],
                                  has_change |-> TRUE]
              [] OTHER -> [b |-> b, has_change |-> has_change])

(* mutant: a source that gave None does not end the body *)
PullLoop_NoEndOnNone(b, k, has_change) == PullLoopWith(b, k, has_change, FALSE)

PullLoop(b, k, has_change) == PullLoopWith(b, k, has_change, TRUE)

inner_poll_read(b, k) ==
    IF b.is_end THEN [b |-> b, r |-> "ready"]
    ELSE Bind(inner_poll_sem_ready(b), LAMBDA s :
            IF s.r = "pending" THEN [b |-> s.b, r |-> "pending"]
            ELSE Bind(PullLoop(s.b, k, FALSE), LAMBDA l :
                    [b |-> IF l.has_change THEN check_over_limit(l.b) ELSE l.b, r |-> "ready"]))

----------------------------------------------------------------------------
(* Body: the pipeline step.  cx = <<>> is process_data(None), cx = <<k>> is *)
(* process_data(Some(cx)) in a poll where k source polls are ready.         *)

MoveReadBufWith(b, len_guard) ==
    IF b.read_buf = <<>> THEN b
    ELSE Bind(IF Len(b.read_buf[1]) > 0 \/ ~len_guard
              THEN encode_write_data([b EXCEPT !.read_buf = <<>>], b.read_buf[1])
              ELSE [b EXCEPT !.read_buf = <<>>],
              LAMBDA b1 : notify_some_read([b1 EXCEPT !.read_buf = << <<>> >>]))

(* mutant: an empty read_buf is encoded too *)
MoveReadBuf_NoLenGuard(b) == MoveReadBufWith(b, FALSE)

MoveReadBuf(b) == MoveReadBufWith(b, TRUE)

FinishStep(b) ==
    Bind(MoveReadBuf(b), LAMBDA b1 :
        Bind(IF b1.is_end THEN encode_write_data(b1, <<>>) ELSE b1, LAMBDA b2 :
            [b2 EXCEPT !.is_process_end = b2.is_end]))

ProcessStep(b, cx) ==
    Bind(IF b.origin_buf # <<>>
         THEN decode_read_data([b EXCEPT !.origin_buf = <<>>], b.origin_buf[1])
         ELSE [b |-> b, ok |-> TRUE, n |-> 0],
         LAMBDA d :
        IF ~d.ok THEN [b |-> d.b, r |-> "err"]
        ELSE Bind(IF cx # <<>> THEN inner_poll_read(d.b, cx[1])
                  ELSE [b |-> d.b, r |-> "ready"],
                  LAMBDA p :
                IF p.r = "pending" THEN [b |-> p.b, r |-> "pending"]
                ELSE [b |-> FinishStep(p.b), r |-> "ready"]))

(* mutant: the is_process_end early return is missing *)
process_data_NoEndGuard(b, cx) == ProcessStep(b, cx)

process_data(b, cx) ==
    IF b.is_process_end THEN [b |-> b, r |-> "ready"]
    ELSE ProcessStep(b, cx)

(* read operations: each returns the body and the bytes handed to the caller *)
ReadDataWith(b, advance) ==
    Bind(process_data(b, <<>>), LAMBDA p :
        IF p.r = "err" THEN [b |-> p.b, r |-> "err", bytes |-> <<>>]
        ELSE [b |-> [p.b EXCEPT !.cache_body_data = IF advance THEN <<>> ELSE @], r |-> "ready",
              bytes |-> p.b.cache_body_data])

(* mutant: the bytes copied stay in cache_body_data *)
read_data_NoAdvance(b) == ReadDataWith(b, FALSE)

read_data(b) == ReadDataWith(b, TRUE)

poll_encode_write(b, k) ==
    Bind(process_data(b, <<k>>), LAMBDA p :
        IF p.r # "ready" THEN [b |-> p.b, r |-> p.r, bytes |-> <<>>]
        ELSE read_data(p.b))

(* mutant: the whole output buffer is advanced, not only the bytes copied *)
poll_read_AdvanceAll(b, k, cap) ==
    Bind(process_data(b, <<k>>), LAMBDA p :
        IF p.r # "ready" THEN [b |-> p.b, r |-> p.r, bytes |-> <<>>]
        ELSE LET len == Min(Len(p.b.cache_body_data), cap) IN
             [b |-> [p.b EXCEPT !.cache_body_data = <<>>],
              r |-> "ready", bytes |-> Take(p.b.cache_body_data, len)])

poll_read(b, k, cap) ==
    Bind(process_data(b, <<k>>), LAMBDA p :
        IF p.r # "ready" THEN [b |-> p.b, r |-> p.r, bytes |-> <<>>]
        ELSE LET len == Min(Len(p.b.cache_body_data), cap) IN
             [b |-> [p.b EXCEPT !.cache_body_data = Drop(p.b.cache_body_data, len)],
              r |-> "ready", bytes |-> Take(p.b.cache_body_data, len)])

read_now(b) ==
    Bind(process_data(b, <<>>), LAMBDA p :
        [b |-> [p.b EXCEPT !.cache_body_data = <<>>], r |-> "ready",
         bytes |-> p.b.cache_body_data])

----------------------------------------------------------------------------
(* Body: wait_all / read_all, one recv().await at a time *)

(* InnerReceiver::recv: the same source as poll_recv, awaited *)
recv(b) == poll_recv(b, 1)

wait_all_begin(b) == process_data(b, <<>>).b

wait_all_item(b, v) == cache_buffer([b EXCEPT !.is_end = v.is_end], v.bin).b

read_all_item(b, v) == [cache_buffer(b, v.bin).b EXCEPT !.is_end = v.is_end]

read_all_finish(b) == read_data(process_data(b, <<>>).b)

NeedsDrain(b) == ~b.is_end /\ ~receiver_is_none(b)

----------------------------------------------------------------------------
(* The Body and its environment as a state machine *)

FileStart(b) == IF b.rx.asked = <<>> THEN 0 ELSE b.rx.asked[1]

(* what the source has put in: for a channel what the producer took from  *)
(* src_left; for a file the bytes read from start_pos on and, while the    *)
(* file is readable, those that remain within the range                    *)
Fed ==
    IF body.rx.kind = "file"
    THEN SubSeq(Stream, FileStart(body) + 1, FileStart(body) + body.rx.delivered)
            \o (IF body.rx.broken THEN <<>> ELSE Take(body.rx.file, body.rx.data_size))
    ELSE Take(Stream, StreamLen - Len(src_left))

IoIdle ==
    /\ io = <<>>
    /\ net = <<>>
    /\ hist = <<>>

H2Idle == h2 = <<>>

Log(op, r, bytes, pre) == [op |-> op, r |-> r, n |-> Len(bytes), pre_end |-> pre]

BodyInit ==
    /\ \/ body = BodyDefault /\ src_left = Stream
       \/ body = BodyOnly(Stream) /\ src_left = <<>>
       \/ body = BodyNew(Stream, TRUE) /\ src_left = <<>>
       \/ \E n \in 0..(StreamLen - 1) :
              /\ body = BodyNew(Take(Stream, n), FALSE)
              /\ src_left = Drop(Stream, n)
       \/ body = BodyNewFile(Stream, StreamLen) /\ src_left = <<>>
    /\ pc = "config"
    /\ out = <<>>
    /\ last = Log("new", "ready", <<>>, FALSE)
    /\ IoIdle
    /\ H2Idle

(* setters, called before the Body is streamed *)
SetMaxReadBuf ==
    /\ pc = "config"
    /\ body.max_read_buf # SmallReadBuf
    /\ body' = [body EXCEPT !.max_read_buf = SmallReadBuf]
    /\ last' = [last EXCEPT !.op = "config"]
    /\ UNCHANGED <<src_left, pc, out>>
    /\ UNCHANGED <<ioVars, h2>>

SetChunked ==
    /\ pc = "config"
    /\ ~body.is_chunked
    /\ body' = [body EXCEPT !.is_chunked = TRUE]
    /\ last' = [last EXCEPT !.op = "config"]
    /\ UNCHANGED <<src_left, pc, out>>
    /\ UNCHANGED <<ioVars, h2>>

SetRateLimit ==
    /\ pc = "config"
    /\ ~body.rate_limit
    /\ body' = [body EXCEPT !.rate_limit = TRUE]
    /\ last' = [last EXCEPT !.op = "config"]
    /\ UNCHANGED <<src_left, pc, out>>
    /\ UNCHANGED <<ioVars, h2>>

SetOriginCompressMethod ==
    /\ pc = "config"
    /\ body.origin_compress_method = COMPRESS_METHOD_NONE
    /\ \E m \in {COMPRESS_METHOD_GZIP, COMPRESS_METHOD_DEFLATE, COMPRESS_METHOD_UNKNOWN} :
           body' = [body EXCEPT !.origin_compress_method = m, !.origin_set = m]
    /\ last' = [last EXCEPT !.op = "config"]
    /\ UNCHANGED <<src_left, pc, out>>
    /\ UNCHANGED <<ioVars, h2>>

AddCompressMethod ==
    /\ pc = "config"
    /\ body.now_compress_method = COMPRESS_METHOD_NONE
    /\ body' = [body EXCEPT !.now_compress_method = COMPRESS_METHOD_GZIP]
    /\ last' = [last EXCEPT !.op = "config"]
    /\ UNCHANGED <<src_left, pc, out>>
    /\ UNCHANGED <<ioVars, h2>>

(* the sender side of the channel *)
ProducerSend ==
    /\ body.rx.kind = "chan"
    /\ ~body.rx.closed
    /\ \E n \in 0..MaxChunk, end \in BOOLEAN :
        /\ n <= Len(src_left)
        /\ end => n = Len(src_left)
        /\ n = 0 => end
        /\ body' = [body EXCEPT !.rx.q = Append(@, [is_end |-> end, bin |-> Take(src_left, n)]),
                                !.rx.closed = end]
        /\ src_left' = Drop(src_left, n)
    /\ UNCHANGED <<pc, out, last>>
    /\ UNCHANGED <<ioVars, h2>>

ProducerClose ==
    /\ body.rx.kind = "chan"
    /\ ~body.rx.closed
    /\ body' = [body EXCEPT !.rx.closed = TRUE]
    /\ UNCHANGED <<src_left, pc, out, last>>
    /\ UNCHANGED <<ioVars, h2>>

(* set_start_end on a file Body, before it is streamed *)
SetStartEnd ==
    /\ pc = "config"
    /\ body.rx.kind = "file"
    /\ body.rx.asked = <<>>
    /\ \E start_pos \in 0..1, end_pos \in 0..(StreamLen + 1) :
        /\ end_pos >= start_pos
        /\ body' = set_start_end(body, start_pos, end_pos)
    /\ last' = [last EXCEPT !.op = "config"]
    /\ UNCHANGED <<src_left, pc, out>>
    /\ UNCHANGED <<ioVars, h2>>

(* the file of a file Body becomes unreadable *)
FileFail ==
    /\ body.rx.kind = "file"
    /\ ~body.rx.broken
    /\ body' = [body EXCEPT !.rx.broken = TRUE]
    /\ UNCHANGED <<src_left, pc, out, last>>
    /\ UNCHANGED <<ioVars, h2>>

CallerFree == pc \in {"config", "idle"}

DoRead(op, res) ==
    /\ body' = res.b
    /\ out' = out \o res.bytes
    /\ last' = Log(op, res.r, res.bytes, body.is_process_end)
    /\ pc' = "idle"
    /\ UNCHANGED src_left

PollRead ==
    /\ CallerFree
    /\ \E k \in 0..MaxK, cap \in 0..MaxCap : DoRead("poll_read", poll_read(body, k, cap))
    /\ UNCHANGED <<ioVars, h2>>

PollEncodeWrite ==
    /\ CallerFree
    /\ \E k \in 0..MaxK : DoRead("poll_encode_write", poll_encode_write(body, k))
    /\ UNCHANGED <<ioVars, h2>>

ReadData ==
    /\ CallerFree
    /\ DoRead("read_data", read_data(body))
    /\ UNCHANGED <<ioVars, h2>>

ReadNow ==
    /\ CallerFree
    /\ DoRead("read_now", read_now(body))
    /\ UNCHANGED <<ioVars, h2>>

WaitAllStart ==
    /\ CallerFree
    /\ \E b \in {wait_all_begin(body)} :
        /\ body' = b
        /\ pc' = IF NeedsDrain(b) THEN "wait_all" ELSE "idle"
        /\ last' = Log("wait_all", IF NeedsDrain(b) THEN "pending" ELSE "ready", <<>>, body.is_process_end)
    /\ UNCHANGED <<src_left, out>>
    /\ UNCHANGED <<ioVars, h2>>

WaitAllStep ==
    /\ pc = "wait_all"
    /\ \E v \in {recv(body)} :
        /\ v.r # "pending"
        /\ IF v.r = "some"
           THEN \E b \in {wait_all_item(v.b, v)} :
                /\ body' = b
                /\ pc' = IF b.is_end THEN "idle" ELSE "wait_all"
                /\ last' = Log("wait_all", IF b.is_end THEN "ready" ELSE "pending", <<>>, body.is_process_end)
           ELSE /\ body' = v.b
                /\ pc' = "idle"
                /\ last' = Log("wait_all", "ready", <<>>, body.is_process_end)
    /\ UNCHANGED <<src_left, out>>
    /\ UNCHANGED <<ioVars, h2>>

ReadAllFinish(b) ==
    \E res \in {read_all_finish(b)} :
    /\ body' = res.b
    /\ out' = out \o res.bytes
    /\ last' = Log("read_all", res.r, res.bytes, body.is_process_end)
    /\ pc' = "idle"

ReadAllStart ==
    /\ CallerFree
    /\ \E b \in {wait_all_begin(body)} :
        IF NeedsDrain(b)
        THEN /\ body' = b
             /\ pc' = "read_all"
             /\ last' = Log("read_all", "pending", <<>>, body.is_process_end)
             /\ out' = out
        ELSE ReadAllFinish(b)
    /\ UNCHANGED src_left
    /\ UNCHANGED <<ioVars, h2>>

ReadAllStep ==
    /\ pc = "read_all"
    /\ \E v \in {recv(body)} :
        /\ v.r # "pending"
        /\ IF v.r = "some"
           THEN \E b \in {read_all_item(v.b, v)} :
                IF b.is_end THEN ReadAllFinish(b)
                ELSE /\ body' = b
                     /\ pc' = "read_all"
                     /\ last' = Log("read_all", "pending", <<>>, body.is_process_end)
                     /\ out' = out
           ELSE ReadAllFinish(v.b)
    /\ UNCHANGED src_left
    /\ UNCHANGED <<ioVars, h2>>

BodyNext ==
    \/ SetMaxReadBuf
    \/ SetChunked
    \/ SetRateLimit
    \/ SetOriginCompressMethod
    \/ AddCompressMethod
    \/ SetStartEnd
    \/ ProducerSend
    \/ FileFail
    \/ ProducerClose
    \/ PollRead
    \/ PollEncodeWrite
    \/ ReadData
    \/ ReadNow
    \/ WaitAllStart
    \/ WaitAllStep
    \/ ReadAllStart
    \/ ReadAllStep

BodySpec == BodyInit /\ [][BodyNext]_vars

----------------------------------------------------------------------------
(* HTTP/1 wire tokens.                                                     *)
(* A request header is the two tokens ReqHA(kind, id), ReqHB(kind, id); it *)
(* parses only when both are in the buffer.  A response (or an outbound    *)
(* request) header is the single token MsgHdr(id).  The body of message id *)
(* is MsgBody(id).  HTTP2_MAGIC is the connection preface.                 *)

GET_KEEP == 1           \* GET, keep-alive, no body
GET_CLOSE == 2          \* GET, Connection: close, no body
POST_LEN == 3           \* POST, Content-Length: 2, keep-alive
POST_CHUNKED == 4       \* POST, Transfer-Encoding: chunked, keep-alive
POST_ZERO == 5          \* POST, Content-Length: 0, keep-alive
RES_LEN == 6            \* 200, Content-Length: 2
RES_UNKNOWN == 7        \* 200, no Content-Length: the body runs until the socket closes
RES_CHUNKED == 8        \* 200, Transfer-Encoding: chunked
RES_101 == 9            \* 101 Switching Protocols

ReqHA(kind, id) == 2000 + 100 * kind + 10 * id
ReqHB(kind, id) == ReqHA(kind, id) + 1
IsReqHA(t) == t >= 2000 /\ t < 3000 /\ t % 10 = 0
KindOf(t) == (t - 2000) \div 100
IdOf(t) == ((t - 2000) % 100) \div 10
MsgHdr(id) == 4000 + id
MsgBody(id) == <<10 * id + 1, 10 * id + 2>>
MsgWire(id) == <<MsgHdr(id)>> \o MsgBody(id)

IsChunkHead(t) == t >= 1000 /\ t < 2000

ReqWire(kind, id) ==
    <<ReqHA(kind, id), ReqHB(kind, id)>> \o
        CASE kind = POST_LEN -> MsgBody(id)
          [] kind = POST_CHUNKED -> <<ChunkHead(2)>> \o MsgBody(id) \o <<ChunkHead(0)>>
          [] OTHER -> <<>>

(* a response on the wire: the header tokens and the body that follows *)
ResWire(kind, id) ==
    <<ReqHA(kind, id), ReqHB(kind, id)>> \o
        CASE kind = RES_LEN -> MsgBody(id)
          [] kind = RES_UNKNOWN -> MsgBody(id)
          [] kind = RES_CHUNKED -> <<ChunkHead(2)>> \o MsgBody(id) \o <<ChunkHead(0)>>
          [] OTHER -> <<>>

HTTP2_MAGIC == [i \in 1..MAIGC_LEN |-> 3000 + i]
ReadAhead == [i \in 1..MaxReadAhead |-> 3100 + i]

(* Request::is_keep_alive, Request::get_body_len, Method::is_nobody,       *)
(* Headers::is_chunked on the request a header token stands for            *)
is_keep_alive(kind) == kind # GET_CLOSE
get_body_len(kind) == IF kind \in {POST_LEN, RES_LEN} THEN 2 ELSE 0
is_nobody(kind) == kind \in {GET_KEEP, GET_CLOSE}
headers_is_chunked(kind) == kind \in {POST_CHUNKED, RES_CHUNKED}

(* Response::status().is_success() and status() == 101 *)
status_is_success(kind) == kind \in {RES_LEN, RES_UNKNOWN, RES_CHUNKED}
status_is_101(kind) == kind = RES_101

(* Request::parse_buffer on a copy of the read buffer *)
parse_buffer(buf) ==
    IF buf = <<>> THEN [r |-> "partial", size |-> 0, kind |-> 0, id |-> 0]
    ELSE IF IsReqHA(buf[1]) /\ KindOf(buf[1]) <= POST_ZERO
         THEN IF Len(buf) >= 2
              THEN IF buf[2] = buf[1] + 1
                   THEN [r |-> "ok", size |-> 2, kind |-> KindOf(buf[1]), id |-> IdOf(buf[1])]
                   ELSE [r |-> "err", size |-> 0, kind |-> 0, id |-> 0]
              ELSE [r |-> "partial", size |-> 0, kind |-> 0, id |-> 0]
         ELSE IF Len(buf) < MAIGC_LEN /\ IsPrefix(buf, HTTP2_MAGIC)
              THEN [r |-> "partial", size |-> 0, kind |-> 0, id |-> 0]
              ELSE [r |-> "err", size |-> 0, kind |-> 0, id |-> 0]

(* Response::parse_buffer on a copy of the read buffer *)
response_parse_buffer(buf) ==
    IF buf = <<>> THEN [r |-> "partial", size |-> 0, kind |-> 0, id |-> 0]
    ELSE IF IsReqHA(buf[1]) /\ KindOf(buf[1]) > POST_ZERO
         THEN IF Len(buf) >= 2
              THEN IF buf[2] = buf[1] + 1
                   THEN [r |-> "ok", size |-> 2, kind |-> KindOf(buf[1]), id |-> IdOf(buf[1])]
                   ELSE [r |-> "err", size |-> 0, kind |-> 0, id |-> 0]
              ELSE [r |-> "partial", size |-> 0, kind |-> 0, id |-> 0]
         ELSE [r |-> "err", size |-> 0, kind |-> 0, id |-> 0]

----------------------------------------------------------------------------
(* SendStream: the read buffer with its body-decoding state *)

SendStreamEmpty ==
    [ read_buf |-> <<>>,
      body_buf |-> <<>>,
      left_read_body_len |-> 0,
      is_chunked |-> FALSE,
      is_end_headers |-> FALSE,
      is_end |-> FALSE ]

set_new_body(ss) == [ss EXCEPT !.is_end_headers = TRUE, !.is_end = FALSE]
set_end_headers(ss, v) == [ss EXCEPT !.is_end_headers = v]
set_left_body(ss, n) == [ss EXCEPT !.left_read_body_len = n]
set_chunked(ss, v) == [ss EXCEPT !.is_chunked = v]

(* complete chunks are decoded; an incomplete chunk stays in read_buf *)
RECURSIVE Dechunk(_)
Dechunk(ss) ==
    LET buf == ss.read_buf IN
    IF buf = <<>> \/ ss.is_end THEN ss
    ELSE IF ~IsChunkHead(buf[1]) THEN ss
    ELSE LET n == buf[1] - 1000 IN
         IF Len(buf) < 1 + n THEN ss
         ELSE Dechunk([ss EXCEPT !.read_buf = Drop(buf, 1 + n),
                                 !.body_buf = ss.body_buf \o SubSeq(buf, 2, 1 + n),
                                 !.is_end = (n = 0)])

ss_process_data(ss) ==
    IF ~ss.is_end_headers \/ ss.is_end THEN ss
    ELSE IF ss.is_chunked THEN Dechunk(ss)
    ELSE LET len == Min(ss.left_read_body_len, Len(ss.read_buf)) IN
         [ss EXCEPT !.read_buf = Drop(ss.read_buf, len),
                    !.body_buf = ss.body_buf \o Take(ss.read_buf, len),
                    !.left_read_body_len = ss.left_read_body_len - len,
                    !.is_end = (ss.left_read_body_len - len = 0)]

ss_read_data(ss) == [ss |-> [ss EXCEPT !.body_buf = <<>>], bytes |-> ss.body_buf]

----------------------------------------------------------------------------
(* IoBuffer: state *)

SendStatusDefault ==
    [ is_send_body |-> FALSE,
      is_send_header |-> FALSE,
      is_send_finish |-> FALSE,
      is_read_header_end |-> FALSE,
      is_read_finish |-> FALSE,
      is_chunked |-> FALSE,
      left_read_body_len |-> 0 ]

clear_write(st) ==
    [st EXCEPT !.is_send_body = FALSE, !.is_send_header = FALSE, !.is_send_finish = FALSE]

clear_read(st) ==
    [st EXCEPT !.is_read_finish = FALSE, !.is_read_header_end = FALSE,
               !.left_read_body_len = 0, !.is_chunked = FALSE]

clear(st) == clear_write(clear_read(st))

(* history fields: hdr_res / hdr_req is the id of the message whose header *)
(* was encoded last, popped_res / popped_req the ids popped, in order      *)
IoBufferNew(is_server) ==
    [ is_server |-> is_server,
      send_stream |-> SendStreamEmpty,
      write_buf |-> <<>>,
      deal_req |-> 0,
      read_sender |-> <<>>,
      res_list |-> <<>>,
      req_list |-> <<>>,
      is_keep_alive |-> FALSE,
      is_delay_close |-> FALSE,
      is_idle |-> TRUE,
      req_status |-> SendStatusDefault,
      res_status |-> SendStatusDefault,
      ready_time |-> 0,
      hdr_res |-> 0,
      hdr_req |-> 0,
      popped_res |-> <<>>,
      popped_req |-> <<>> ]

is_active_close(i) ==
    i.req_status.is_send_finish /\ i.req_status.is_send_finish /\ ~i.is_keep_alive

set_now_end(i) ==
    [i EXCEPT !.req_status = clear(i.req_status),
              !.res_status = clear(i.res_status),
              !.ready_time = i.ready_time + 1,
              !.is_idle = TRUE]

check_finish_status(i) ==
    IF /\ (i.req_list = <<>> \/ i.req_status.is_send_finish)
       /\ (i.res_list = <<>> \/ i.res_status.is_send_finish)
    THEN set_now_end(i)
    ELSE i

send_response(i, res) ==
    LET i1 == check_finish_status(i) IN
    [i1 EXCEPT !.res_list = Append(i1.res_list, res), !.is_idle = FALSE]

send_request(i, req) ==
    LET i1 == check_finish_status(i) IN
    [i1 EXCEPT !.req_list = Append(i1.req_list, req), !.is_idle = FALSE]

into(i) == [read_buf |-> i.send_stream.read_buf, write_buf |-> i.write_buf]

----------------------------------------------------------------------------
(* IoBuffer::poll_write.  w is what the socket accepts in this poll        *)
(* (0: the socket write is Pending).  mode "ok" is the code; the other     *)
(* modes are the mutants below.                                            *)

FrontIdx(list, mode) == IF mode = "lifo" THEN Len(list) ELSE 1
PopFront(list, mode) == IF mode = "lifo" THEN SubSeq(list, 1, Len(list) - 1) ELSE Tail(list)

(* io.rs:176-193 *)
WriteResFront(i, mode) ==
    IF i.res_list = <<>> THEN i
    ELSE LET x == FrontIdx(i.res_list, mode)
             res == i.res_list[x]
             enc == ~i.res_status.is_send_header \/ mode = "rehdr"
             wb1 == IF enc THEN i.write_buf \o <<MsgHdr(res.id)>> ELSE i.write_buf
             drive == ~res.body.is_end \/ ~i.res_status.is_send_body
         IN Bind(IF drive THEN poll_encode_write(res.body, MaxK)
                 ELSE [b |-> res.body, r |-> "ready", bytes |-> <<>>],
                 LAMBDA pe :
                [i EXCEPT !.res_list[x].body = pe.b,
                          !.write_buf = wb1 \o pe.bytes,
                          !.res_status =
                              [@ EXCEPT !.is_chunked = IF enc THEN res.chunked ELSE @,
                                        !.is_send_header = TRUE,
                                        !.is_send_body = IF drive THEN TRUE ELSE @,
                                        !.is_send_finish = IF pe.b.is_end THEN TRUE ELSE @],
                          !.deal_req = IF pe.b.is_end THEN i.deal_req + 1 ELSE i.deal_req,
                          !.hdr_res = IF enc THEN res.id ELSE i.hdr_res])

(* io.rs:194-199 *)
WriteResPop(i, mode) ==
    IF i.res_status.is_send_finish
    THEN LET x == FrontIdx(i.res_list, mode)
             i1 == [i EXCEPT !.popped_res = IF i.res_list = <<>> THEN @ ELSE Append(@, i.res_list[x].id),
                             !.res_list = IF i.res_list = <<>> THEN <<>> ELSE PopFront(i.res_list, mode),
                             !.res_status = clear_write(@)]
         IN check_finish_status(i1)
    ELSE i

(* io.rs:201-215 *)
WriteReqFront(i) ==
    IF i.req_list = <<>> THEN i
    ELSE LET req == i.req_list[1]
             enc == ~i.req_status.is_send_header
             wb1 == IF enc THEN i.write_buf \o <<MsgHdr(req.id)>> ELSE i.write_buf
             drive == ~req.body.is_end \/ ~i.req_status.is_send_body
         IN Bind(IF drive THEN poll_encode_write(req.body, MaxK)
                 ELSE [b |-> req.body, r |-> "ready", bytes |-> <<>>],
                 LAMBDA pe :
                [i EXCEPT !.req_list[1].body = pe.b,
                          !.write_buf = wb1 \o pe.bytes,
                          !.req_status =
                              [@ EXCEPT !.is_send_header = TRUE,
                                        !.is_send_body = IF drive THEN TRUE ELSE @,
                                        !.is_send_finish = IF pe.b.is_end THEN TRUE ELSE @],
                          !.deal_req = IF pe.b.is_end THEN i.deal_req + 1 ELSE i.deal_req,
                          !.hdr_req = IF enc THEN req.id ELSE i.hdr_req])

(* io.rs:216-221 *)
WriteReqPop(i) ==
    IF i.req_status.is_send_finish
    THEN LET i1 == [i EXCEPT !.popped_req = IF i.req_list = <<>> THEN @ ELSE Append(@, i.req_list[1].id),
                             !.req_list = IF i.req_list = <<>> THEN <<>> ELSE Tail(i.req_list),
                             !.req_status = clear_write(@)]
         IN check_finish_status(i1)
    ELSE i

(* io.rs:223-235 *)
SocketWrite(i, w) ==
    IF i.write_buf = <<>> THEN [io |-> i, r |-> "ready", n |-> 0, wrote |-> <<>>]
    ELSE IF w = 0 THEN [io |-> i, r |-> "pending", n |-> 0, wrote |-> <<>>]
    ELSE LET n == Min(w, Len(i.write_buf))
             i1 == [i EXCEPT !.write_buf = Drop(i.write_buf, n)]
         IN [io |-> i1, r |-> IF i1.write_buf = <<>> THEN "ready" ELSE "pending",
             n |-> n, wrote |-> Take(i.write_buf, n)]

PollWriteWith(i, w, mode) ==
    SocketWrite(WriteReqPop(WriteReqFront(WriteResPop(WriteResFront(i, mode), mode))), w)

(* mutant: the response list is served from the back *)
poll_write_Lifo(i, w) == PollWriteWith(i, w, "lifo")

(* mutant: the header is encoded without looking at is_send_header *)
poll_write_ReencodeHeader(i, w) == PollWriteWith(i, w, "rehdr")

poll_write(i, w) == PollWriteWith(i, w, "ok")

----------------------------------------------------------------------------
(* IoBuffer: the read side *)

(* IoBuffer::poll_read, one socket read followed by SendStream::process_data *)
io_poll_read(i, bytes) ==
    [i EXCEPT !.send_stream = ss_process_data([i.send_stream EXCEPT !.read_buf = @ \o bytes])]

(* poll_read_all: reads until the socket is Pending or reports 0.  avail   *)
(* is what the socket holds, closed tells whether end-of-file follows it.  *)
poll_read_all(i, avail, closed) ==
    IF avail = <<>>
    THEN IF closed THEN [io |-> i, r |-> "ready", n |-> 0]
         ELSE [io |-> i, r |-> "pending", n |-> 0]
    ELSE IF closed THEN [io |-> io_poll_read(i, avail), r |-> "ready", n |-> 0]
         ELSE [io |-> io_poll_read(i, avail), r |-> "ready", n |-> Len(avail)]

(* ended is history: a message with is_end = true was put on the channel *)
ChannelNew == [q |-> <<>>, rx_alive |-> TRUE, ended |-> FALSE]

try_reserve(ch) == ch.rx_alive /\ Len(ch.q) < BODY_CHANNEL_CAP

(* the loop of do_deal_body (io.rs:375-389) *)
RECURSIVE DealLoop(_, _, _)
DealLoop(i, is_req, reserve) ==
    IF ~reserve \/ try_reserve(i.read_sender[1])
    THEN LET rd == ss_read_data(i.send_stream) IN
         IF rd.bytes = <<>> THEN [io |-> i, ok |-> TRUE, close |-> FALSE]
         ELSE LET end == rd.ss.is_end
                  i1 == [i EXCEPT !.send_stream = rd.ss,
                                  !.read_sender[1].q = Append(@, [is_end |-> end, bin |-> rd.bytes]),
                                  !.read_sender[1].ended = @ \/ end]
                  i2 == IF is_req THEN [i1 EXCEPT !.req_status.is_read_finish = end]
                        ELSE [i1 EXCEPT !.res_status.is_read_finish = end]
              IN DealLoop(i2, is_req, reserve)
    ELSE [io |-> i, ok |-> FALSE, close |-> FALSE]

DealBodyWith(i, is_req, reserve) ==
    IF i.read_sender # <<>> THEN DealLoop(i, is_req, reserve)
    ELSE [io |-> i, ok |-> TRUE,
          close |-> (is_active_close(i) /\ i.write_buf = <<>>) \/ i.is_delay_close]

(* mutant: the chunk is sent without try_reserve *)
do_deal_body_NoReserve(i, is_req) == DealBodyWith(i, is_req, FALSE)

do_deal_body(i, is_req) == DealBodyWith(i, is_req, TRUE)

(* build_body: the Body handed out with the request and the sender kept *)
build_body(i, status) ==
    LET ss1 == set_chunked(set_left_body(i.send_stream, status.left_read_body_len),
                           status.is_chunked)
    IN IF status.left_read_body_len = 0
       THEN [io |-> [i EXCEPT !.send_stream = ss1], recv_end |-> TRUE, init |-> <<>>, sender |-> <<>>]
       ELSE Bind(ss_read_data(ss_process_data(ss1)), LAMBDA rd :
                [io |-> [i EXCEPT !.send_stream = rd.ss], recv_end |-> rd.ss.is_end,
                 init |-> rd.bytes, sender |-> <<ChannelNew>>])

PollResult(i, r, val, id, in_body) ==
    [io |-> i, r |-> r, val |-> val, id |-> id, in_body |-> in_body]

(* io.rs:333-362: a request was parsed *)
YieldRequest(i, p) ==
    LET body_len == get_body_len(p.kind)
        left0 == IF body_len < 0 THEN USIZE_MAX ELSE body_len
        grow == ~is_nobody(p.kind) /\ body_len = 0
        i1 == [i EXCEPT !.send_stream = [set_new_body(@) EXCEPT !.read_buf = Drop(@, p.size)],
                        !.req_status.is_send_body = FALSE,
                        !.req_status.is_send_finish = FALSE,
                        !.req_status.is_read_header_end = TRUE,
                        !.is_keep_alive = is_keep_alive(p.kind),
                        !.req_status.left_read_body_len = IF grow THEN USIZE_MAX ELSE left0,
                        !.req_status.is_chunked =
                            IF grow /\ headers_is_chunked(p.kind) THEN TRUE ELSE @]
    IN Bind(build_body(i1, i1.req_status), LAMBDA bb :
            PollResult([bb.io EXCEPT
                           !.req_status = IF bb.recv_end THEN clear_read(@) ELSE @,
                           !.send_stream = IF bb.recv_end THEN set_end_headers(@, FALSE) ELSE @,
                           !.read_sender = bb.sender],
                       "req", bb.init, p.id, FALSE)
                @@ [kind |-> p.kind, recv_end |-> bb.recv_end,
                    left |-> i1.req_status.left_read_body_len])

(* io.rs:310-332: parse what the read buffer holds.  advance_magic is the  *)
(* commented-out advance of io.rs:320.                                     *)
ParseStep(i, advance_magic) ==
    LET buf == i.send_stream.read_buf
        in_body == i.req_status.is_read_header_end /\ buf # <<>>
        p == parse_buffer(buf)
    IN CASE p.r = "partial" -> PollResult(i, "pending", <<>>, 0, in_body)
         [] p.r = "err" ->
                IF Len(buf) >= MAIGC_LEN /\ Take(buf, MAIGC_LEN) = HTTP2_MAGIC
                THEN PollResult(IF advance_magic
                                THEN [i EXCEPT !.send_stream.read_buf = Drop(@, MAIGC_LEN)]
                                ELSE i,
                                "err_upgrade", <<>>, 0, in_body)
                ELSE PollResult(i, "err_parse", <<>>, 0, in_body)
         [] OTHER -> LET y == YieldRequest(i, p) IN [y EXCEPT !.in_body = in_body]

(* io.rs:296-309 *)
ReadStep(i, advance_magic) ==
    IF i.req_status.is_read_header_end
    THEN Bind(do_deal_body(i, TRUE), LAMBDA d :
            IF ~d.ok THEN PollResult(d.io, "err_sender", <<>>, 0, FALSE)
            ELSE Bind(IF d.io.req_status.is_read_finish
                      THEN [d.io EXCEPT !.req_status = clear_read(@),
                                        !.send_stream = set_end_headers(@, FALSE)]
                      ELSE d.io,
                      LAMBDA i1 :
                    IF i1.send_stream.read_buf = <<>> /\ ~i1.req_status.is_read_header_end
                    THEN PollResult(i1, "pending", <<>>, 0, FALSE)
                    ELSE ParseStep(i1, advance_magic)))
    ELSE ParseStep(i, advance_magic)

PollRequestWith(i, avail, closed, w, advance_magic) ==
    Bind(poll_write(i, w), LAMBDA pw :
        IF pw.r = "ready" /\ pw.n = 0 /\ is_active_close(pw.io) /\ pw.io.write_buf = <<>>
        THEN PollResult(pw.io, "none", <<>>, 0, FALSE) @@ [wrote |-> pw.wrote, took |-> FALSE]
        ELSE Bind(poll_read_all(pw.io, avail, closed), LAMBDA ra :
                IF ra.r = "pending"
                THEN PollResult(ra.io, "pending", <<>>, 0, FALSE) @@ [wrote |-> pw.wrote, took |-> FALSE]
                ELSE IF ra.n = 0
                     THEN PollResult(ra.io, "none", <<>>, 0, FALSE) @@ [wrote |-> pw.wrote, took |-> TRUE]
                     ELSE ReadStep(ra.io, advance_magic) @@ [wrote |-> pw.wrote, took |-> TRUE]))

(* mutant: the preface is consumed before the upgrade error is returned *)
poll_request_AdvanceMagic(i, avail, closed, w) == PollRequestWith(i, avail, closed, w, TRUE)

poll_request(i, avail, closed, w) == PollRequestWith(i, avail, closed, w, FALSE)

----------------------------------------------------------------------------
(* IoBuffer::poll_response (client) *)

(* io.rs:447-496: a response header was parsed *)
YieldResponse(i, p) ==
    LET body_len == get_body_len(p.kind)
        left0 == IF body_len < 0 THEN USIZE_MAX ELSE body_len
        grow == status_is_success(p.kind) /\ body_len = 0
        i1 == [i EXCEPT !.send_stream = [set_new_body(@) EXCEPT !.read_buf = Drop(@, p.size)],
                        !.res_status.is_send_body = FALSE,
                        !.res_status.is_send_finish = FALSE,
                        !.res_status.is_read_header_end = TRUE,
                        !.res_status.left_read_body_len = IF grow THEN USIZE_MAX ELSE left0,
                        !.res_status.is_chunked =
                            IF grow /\ headers_is_chunked(p.kind) THEN TRUE ELSE @]
    IN IF ~grow /\ status_is_101(p.kind)
       THEN PollResult(i1, "res", <<>>, p.id, FALSE)
       ELSE Bind(build_body(i1, i1.res_status), LAMBDA bb :
                PollResult([bb.io EXCEPT
                               !.res_status = IF bb.recv_end THEN clear_read(@) ELSE @,
                               !.read_sender = bb.sender],
                           "res", bb.init, p.id, FALSE))

(* io.rs:427-445 *)
ParseResponse(i) ==
    LET p == response_parse_buffer(i.send_stream.read_buf)
    IN CASE p.r = "partial" ->
                PollResult(i, IF i.is_delay_close THEN "none" ELSE "pending", <<>>, 0, FALSE)
         [] p.r = "err" -> PollResult(i, "err_parse", <<>>, 0, FALSE)
         [] OTHER -> YieldResponse(i, p)

(* io.rs:415-426 *)
ResponseStep(i) ==
    IF i.res_status.is_read_header_end
    THEN Bind(do_deal_body(i, FALSE), LAMBDA d :
            IF ~d.ok THEN PollResult(d.io, "err_sender", <<>>, 0, FALSE)
            ELSE PollResult([d.io EXCEPT !.res_status =
                                IF d.io.res_status.is_read_finish THEN clear_read(@) ELSE @],
                            IF d.close THEN "none" ELSE "pending", <<>>, 0, FALSE))
    ELSE ParseResponse(i)

poll_response(i, avail, closed, w) ==
    Bind(poll_write(i, w), LAMBDA pw :
        IF pw.io.is_delay_close
        THEN PollResult(pw.io, "none", <<>>, 0, FALSE) @@ [wrote |-> pw.wrote, took |-> FALSE]
        ELSE Bind(poll_read_all(pw.io, avail, closed), LAMBDA ra :
                IF ra.r = "pending"
                THEN PollResult(ra.io, "pending", <<>>, 0, FALSE) @@ [wrote |-> pw.wrote, took |-> FALSE]
                ELSE ResponseStep([ra.io EXCEPT !.is_delay_close = IF ra.n = 0 THEN TRUE ELSE @])
                        @@ [wrote |-> pw.wrote, took |-> TRUE]))

----------------------------------------------------------------------------
(* The IoBuffer, its peer and its caller as a state machine *)

RECURSIVE Pipeline(_, _, _)
Pipeline(first, rest, n) ==
    IF n = 0 THEN <<>>
    ELSE IF n = 1 THEN ReqWire(first, 1)
    ELSE Pipeline(first, rest, n - 1) \o ReqWire(rest, n)

Scripts ==
    { Pipeline(GET_KEEP, GET_KEEP, MaxReqs),
      Pipeline(POST_LEN, GET_CLOSE, MaxReqs),
      Pipeline(POST_CHUNKED, GET_KEEP, MaxReqs),
      Pipeline(POST_ZERO, GET_KEEP, MaxReqs),
      Pipeline(GET_CLOSE, GET_CLOSE, 1),
      HTTP2_MAGIC \o ReadAhead }

(* what a server sends to a client IoBuffer *)
ResScripts ==
    { <<>>,
      ResWire(RES_LEN, 1) \o ResWire(RES_CHUNKED, 2),
      ResWire(RES_UNKNOWN, 1),
      ResWire(RES_101, 1) }

BodyIdle ==
    /\ body = BodyDefault
    /\ src_left = Stream
    /\ pc = "config"
    /\ out = <<>>
    /\ last = Log("new", "ready", <<>>, FALSE)

IoLog(op, r, val, in_body, close_due) ==
    [op |-> op, r |-> r, val |-> val, in_body |-> in_body, close_due |-> close_due]

(* what a poll found when it was called: a body in progress, its consumer  *)
(* gone, bytes waiting on the socket, end-of-file on the socket            *)
PreLog(i, avail, closed) ==
    [ header_end |-> IF i.is_server THEN i.req_status.is_read_header_end
                     ELSE i.res_status.is_read_header_end,
      has_sender |-> i.read_sender # <<>>,
      rx_dropped |-> i.read_sender # <<>> /\ ~i.read_sender[1].rx_alive,
      avail |-> avail # <<>>,
      eof |-> closed,
      delay_close |-> i.is_delay_close ]

IoInit ==
    /\ BodyIdle
    /\ H2Idle
    /\ \E is_server \in BOOLEAN :
        /\ io = IoBufferNew(is_server)
        /\ \E script \in (IF is_server THEN Scripts ELSE ResScripts) :
              net = [peer_left |-> script, in |-> <<>>, closed |-> FALSE, wrote |-> <<>>]
    /\ hist = [yielded |-> <<>>, sent |-> <<>>, recvd |-> <<>>, done |-> FALSE,
               last |-> IoLog("new", "ready", <<>>, FALSE, FALSE),
               pre |-> PreLog(IoBufferNew(TRUE), <<>>, FALSE),
               got |-> [kind |-> 0, recv_end |-> FALSE, left |-> 0],
               eof_in_body |-> FALSE]

Emitted == net.wrote \o io.write_buf

(* a server answers once the client's requests have reached it *)
Answerable ==
    io.is_server \/ (hist.sent # <<>> /\ io.req_list = <<>> /\ io.write_buf = <<>>)

PeerSend ==
    /\ ~hist.done
    /\ ~net.closed
    /\ Answerable
    /\ \E n \in 1..MaxSeg :
        /\ n <= Len(net.peer_left)
        /\ net' = [net EXCEPT !.in = @ \o Take(net.peer_left, n),
                              !.peer_left = Drop(@, n)]
    /\ UNCHANGED <<io, hist>>
    /\ UNCHANGED <<bodyVars, h2>>

(* the peer closes its side, possibly before it has sent everything *)
PeerClose ==
    /\ ~hist.done
    /\ ~net.closed
    /\ Answerable
    /\ net' = [net EXCEPT !.closed = TRUE, !.peer_left = <<>>]
    /\ UNCHANGED <<io, hist>>
    /\ UNCHANGED <<bodyVars, h2>>

(* the response of the last yielded request is out and nothing is left to write *)
CloseDue ==
    /\ hist.yielded # <<>>
    /\ ~io.is_keep_alive
    /\ hist.sent = hist.yielded
    /\ io.res_list = <<>>
    /\ io.write_buf = <<>>

PollRequest ==
    /\ io.is_server
    /\ ~hist.done
    /\ \E w \in 0..MaxWrite :
        \E res \in {poll_request(io, net.in, net.closed, w)} :
        /\ io' = res.io
        /\ net' = [net EXCEPT !.wrote = @ \o res.wrote,
                              !.in = IF res.took THEN <<>> ELSE @]
        /\ hist' = [hist EXCEPT
                      !.yielded = IF res.r = "req" THEN Append(@, res.id) ELSE @,
                      !.recvd = IF res.took THEN @ \o net.in ELSE @,
                      !.done = res.r \in {"none", "err_parse", "err_sender", "err_upgrade"},
                      !.last = IoLog("poll_request", res.r, res.val, res.in_body, CloseDue),
                      !.pre = PreLog(io, net.in, net.closed),
                      !.got = IF res.r = "req"
                              THEN [kind |-> res.kind, recv_end |-> res.recv_end, left |-> res.left]
                              ELSE @]
    /\ UNCHANGED <<bodyVars, h2>>

(* the client polls for the next response; after an error it stops, after  *)
(* end-of-stream it may poll again                                         *)
PollResponse ==
    /\ ~io.is_server
    /\ ~hist.done
    /\ \E w \in 0..MaxWrite :
        \E res \in {poll_response(io, net.in, net.closed, w)} :
        /\ io' = res.io
        /\ net' = [net EXCEPT !.wrote = @ \o res.wrote,
                              !.in = IF res.took THEN <<>> ELSE @]
        /\ hist' = [hist EXCEPT
                      !.yielded = IF res.r = "res" THEN Append(@, res.id) ELSE @,
                      !.recvd = IF res.took THEN @ \o net.in ELSE @,
                      !.done = res.r \in {"err_parse", "err_sender"},
                      !.last = IoLog("poll_response", res.r, res.val, FALSE, FALSE),
                      !.pre = PreLog(io, net.in, net.closed),
                      !.eof_in_body = @ \/ (res.took /\ net.closed
                                              /\ io.res_status.is_read_header_end
                                              /\ io.read_sender # <<>>)]
    /\ UNCHANGED <<bodyVars, h2>>

PollWrite ==
    /\ ~io.is_server
    /\ ~hist.done
    /\ \E w \in 0..MaxWrite :
        \E res \in {poll_write(io, w)} :
        /\ io' = res.io
        /\ net' = [net EXCEPT !.wrote = @ \o res.wrote]
        /\ hist' = [hist EXCEPT !.last = IoLog("poll_write", res.r, <<>>, FALSE, FALSE)]
    /\ UNCHANGED <<bodyVars, h2>>

(* an outbound message: complete, or streamed through a channel *)
NewMessage(id, streamed) ==
    [ id |-> id,
      chunked |-> FALSE,
      body |-> IF streamed THEN BodyNew(Take(MsgBody(id), 1), FALSE) ELSE BodyOnly(MsgBody(id)),
      rest |-> IF streamed THEN Drop(MsgBody(id), 1) ELSE <<>> ]

(* the handler answers the requests in the order it was given them *)
SendResponse ==
    /\ io.is_server
    /\ ~hist.done
    /\ Len(hist.sent) < Len(hist.yielded)
    /\ \E streamed \in BOOLEAN :
        LET id == hist.yielded[Len(hist.sent) + 1] IN
        /\ io' = send_response(io, NewMessage(id, streamed))
        /\ hist' = [hist EXCEPT !.sent = Append(@, id)]
    /\ UNCHANGED net
    /\ UNCHANGED <<bodyVars, h2>>

(* the client pipelines its requests before it reads the responses *)
SendRequest ==
    /\ ~io.is_server
    /\ ~hist.done
    /\ Len(hist.sent) < MaxReqs
    /\ net.in = <<>> /\ hist.recvd = <<>> /\ ~net.closed
    /\ \E streamed \in BOOLEAN :
        LET id == Len(hist.sent) + 1 IN
        /\ io' = send_request(io, NewMessage(id, streamed))
        /\ hist' = [hist EXCEPT !.sent = Append(@, id)]
    /\ UNCHANGED net
    /\ UNCHANGED <<bodyVars, h2>>

FeedMessage(m, end) ==
    [m EXCEPT !.body.rx.q = Append(@, [is_end |-> end, bin |-> m.rest]),
              !.body.rx.closed = end,
              !.rest = <<>>]

CanFeed(m) == m.body.rx.kind = "chan" /\ ~m.body.rx.closed

(* the owner of an outbound streamed body sends the rest of it *)
HandlerFeed ==
    /\ ~hist.done
    /\ \E end \in BOOLEAN :
        \/ \E x \in 1..Len(io.res_list) :
              /\ CanFeed(io.res_list[x]) /\ io.res_list[x].rest # <<>>
              /\ io' = [io EXCEPT !.res_list[x] = FeedMessage(@, end)]
        \/ \E x \in 1..Len(io.req_list) :
              /\ CanFeed(io.req_list[x]) /\ io.req_list[x].rest # <<>>
              /\ io' = [io EXCEPT !.req_list[x] = FeedMessage(@, end)]
    /\ UNCHANGED <<net, hist>>
    /\ UNCHANGED <<bodyVars, h2>>

(* ... and drops the sender once everything is sent *)
HandlerClose ==
    /\ ~hist.done
    /\ \/ \E x \in 1..Len(io.res_list) :
              /\ CanFeed(io.res_list[x]) /\ io.res_list[x].rest = <<>>
              /\ io' = [io EXCEPT !.res_list[x].body.rx.closed = TRUE]
       \/ \E x \in 1..Len(io.req_list) :
              /\ CanFeed(io.req_list[x]) /\ io.req_list[x].rest = <<>>
              /\ io' = [io EXCEPT !.req_list[x].body.rx.closed = TRUE]
    /\ UNCHANGED <<net, hist>>
    /\ UNCHANGED <<bodyVars, h2>>

(* the consumer of the request Body takes a chunk, or drops the Body *)
ConsumerRecv ==
    /\ ~hist.done
    /\ io.read_sender # <<>>
    /\ io.read_sender[1].rx_alive
    /\ io.read_sender[1].q # <<>>
    /\ io' = [io EXCEPT !.read_sender[1].q = Tail(@)]
    /\ UNCHANGED <<net, hist>>
    /\ UNCHANGED <<bodyVars, h2>>

ConsumerDrop ==
    /\ ~hist.done
    /\ io.read_sender # <<>>
    /\ io.read_sender[1].rx_alive
    /\ io' = [io EXCEPT !.read_sender[1].rx_alive = FALSE, !.read_sender[1].q = <<>>]
    /\ UNCHANGED <<net, hist>>
    /\ UNCHANGED <<bodyVars, h2>>

IoNext ==
    \/ PeerSend
    \/ PeerClose
    \/ PollRequest
    \/ PollResponse
    \/ PollWrite
    \/ SendResponse
    \/ SendRequest
    \/ HandlerFeed
    \/ HandlerClose
    \/ ConsumerRecv
    \/ ConsumerDrop

IoSpec == IoInit /\ [][IoNext]_vars

----------------------------------------------------------------------------
(* HTTP/2: frames.  A frame is a record; the stream ids of the peer are    *)
(* 1..MaxStreams and stream 0 is the connection.                           *)

MaxStreams == 2
MaxWindow == 2

NO_ERROR == 0
PROTOCOL_ERROR == 1

Sids == 1..MaxStreams

(* the streams frames are sent on: those of the peer and one pushed stream *)
PUSH_ID == MaxStreams + 1
SendSids == 1..PUSH_ID

(* Codec.max_send_frame_size, in body bytes *)
DEFAULT_MAX_FRAME_SIZE == 2

Max(a, b) == IF a > b THEN a ELSE b

FrameOf(kind, sid) ==
    [kind |-> kind, sid |-> sid, end_headers |-> FALSE, end_stream |-> FALSE,
     payload |-> <<>>, inc |-> 0, reason |-> NO_ERROR, last_stream_id |-> 0, promised |-> 0]

Headers(sid, eh, es) == [FrameOf("headers", sid) EXCEPT !.end_headers = eh, !.end_stream = es]
Data(sid, payload, es) == [FrameOf("data", sid) EXCEPT !.payload = payload, !.end_stream = es]
GoAway(last_sid, reason) ==
    [FrameOf("goaway", 0) EXCEPT !.last_stream_id = last_sid, !.reason = reason]
WindowUpdate(sid, inc) == [FrameOf("window_update", sid) EXCEPT !.inc = inc]
Reset(sid) == FrameOf("reset", sid)
PushPromise(sid, promised, es) ==
    [FrameOf("push_promise", sid) EXCEPT !.end_headers = TRUE, !.end_stream = es,
                                         !.promised = promised]

(* InnerStream: the frames of one stream.  phase is the kind of frame the  *)
(* stream saw last; built counts the messages built from it                *)
InnerStreamNew(frame) ==
    [phase |-> IF frame.kind = "headers" THEN "headers" ELSE "data_first",
     end_stream |-> frame.end_stream, built |-> 0]

(* push validates the order HEADERS, DATA+, trailers *)
inner_push(st, frame) ==
    IF \/ st.phase \in {"data_first", "trailers"}
       \/ (frame.kind = "headers" /\ st.phase = "headers")
    THEN [ok |-> FALSE, st |-> st]
    ELSE [ok |-> TRUE,
          st |-> [st EXCEPT !.phase = IF frame.kind = "data" THEN "data" ELSE "trailers",
                            !.end_stream = @ \/ frame.end_stream]]

(* PriorityQueue: outbound frames and the send windows, in body bytes *)
PriorityQueueNew(w) ==
    [q |-> <<>>, conn_window |-> w, window |-> [s \in SendSids |-> w]]

pq_send_frames(pq, frames) == [pq EXCEPT !.q = @ \o frames]

(* poll_handle: frames leave in queue order; DATA is capped by the stream  *)
(* and the connection window, and what is blocked holds back the later     *)
(* frames of its stream                                                    *)
RECURSIVE PqDrain(_, _, _)
PqDrain(pq, kept, sent) ==
    IF pq.q = <<>> THEN [pq |-> [pq EXCEPT !.q = kept], sent |-> sent]
    ELSE Bind(Head(pq.q), LAMBDA f :
         Bind([pq EXCEPT !.q = Tail(@)], LAMBDA rest :
            IF \E k \in 1..Len(kept) : kept[k].sid = f.sid
            THEN PqDrain(rest, Append(kept, f), sent)
            ELSE IF f.kind # "data" THEN PqDrain(rest, kept, Append(sent, f))
            ELSE Bind(Min(Len(f.payload), Min(pq.window[f.sid], pq.conn_window)), LAMBDA n :
                    IF n = 0 THEN PqDrain(rest, Append(kept, f), sent)
                    ELSE Bind([rest EXCEPT !.window[f.sid] = @ - n, !.conn_window = @ - n],
                              LAMBDA paid :
                        IF n = Len(f.payload) THEN PqDrain(paid, kept, Append(sent, f))
                        ELSE PqDrain(paid,
                                     Append(kept, [f EXCEPT !.payload = Drop(@, n)]),
                                     Append(sent, [f EXCEPT !.payload = Take(@, n),
                                                            !.end_stream = FALSE]))))))

(* StateGoAway: the GOAWAY frame to send, and whether it has been written *)
StateGoAwayNew == [frame |-> <<>>, sent |-> FALSE]

(* SendResponse (send_response.rs) *)
H2Response(clen, b) == [clen |-> clen, body |-> b]

SendResponseNew(stream_id, push_id, response, is_end_stream) ==
    [stream_id |-> stream_id, push_id |-> push_id, response |-> response,
     encode_header |-> FALSE, encode_body |-> FALSE, is_end_stream |-> is_end_stream]

(* is_end of encode_headers: a Content-Length header of 0 *)
encode_headers(response) == response.clen = "zero"

EncodeHead(l) ==
    IF l.encode_header THEN [l |-> l, frames |-> <<>>]
    ELSE IF l.push_id # <<>>
    THEN [l |-> [l EXCEPT !.stream_id = l.push_id[1], !.encode_header = TRUE],
          frames |-> <<PushPromise(l.stream_id, l.push_id[1], encode_headers(l.response))>>]
    ELSE [l |-> [l EXCEPT !.encode_header = TRUE],
          frames |-> <<Headers(l.stream_id, TRUE, encode_headers(l.response))>>]

encode_frames(l0) ==
    Bind(EncodeHead(l0), LAMBDA a :
        IF a.l.response.body.is_end /\ a.l.encode_body
        THEN [l |-> a.l, isend |-> a.l.is_end_stream, frames |-> a.frames]
        ELSE Bind(poll_encode_write(a.l.response.body, 0), LAMBDA p :
                IF p.bytes = <<>>
                THEN [l |-> [a.l EXCEPT !.encode_body = TRUE, !.response.body = p.b],
                      isend |-> a.l.is_end_stream, frames |-> a.frames]
                ELSE [l |-> [a.l EXCEPT !.encode_body = TRUE, !.response.body = p.b,
                                        !.is_end_stream = p.b.is_end],
                      isend |-> p.b.is_end,
                      frames |-> Append(a.frames, Data(a.l.stream_id, p.bytes, p.b.is_end))]))

----------------------------------------------------------------------------
(* HTTP/2: Control (protocol/http2/control.rs) and its codec *)

ControlNew(is_server, w, script, shape) ==
    [ is_server |-> is_server,
      recv_frames |-> [s \in Sids |-> <<>>],
      ready_queue |-> <<>>,
      last_stream_id |-> 0,
      send_frames |-> PriorityQueueNew(w),
      response_queue |-> <<>>,
      goaway |-> StateGoAwayNew,
      error |-> <<>>,
      partial |-> <<>>,                 \* FramedRead.partial
      inq |-> <<>>,                     \* frames on the socket, not read yet
      closed |-> FALSE,                 \* the peer closed the socket
      wire |-> <<>>,                    \* frames flushed to the socket
      max_send_frame_size |-> DEFAULT_MAX_FRAME_SIZE,
      handshake |-> "wait",             \* StateHandshake: "wait", "done", "failed"
      setting_sent |-> FALSE,           \* StateSettings: the local SETTINGS were queued
      preface |-> "none",               \* the peer's connection preface: "none", "good", "bad"
      \* what follows is history
      peer_left |-> script,
      initial_window |-> w,
      delivered |-> <<>>,               \* stream ids of the messages handed to the caller
      answered |-> {},
      shape |-> shape,                  \* the handler's responses: header and body
      responses |-> {},                 \* what the handler answered: stream, push, length, body
      over_cap |-> FALSE,               \* encode_frames made a DATA frame above the send cap
      eh_log |-> <<>>,                  \* stream ids, in the order recv_frame took END_HEADERS
      hdr_seen |-> {},                  \* streams a HEADERS frame was read for
      data_first |-> {},                \* streams whose DATA was read before any HEADERS
      reset |-> {},                     \* streams a RST_STREAM was read for
      credits |-> [s \in 0..MaxStreams |-> 0],
      paid |-> [s \in Sids |-> 0],      \* DATA bytes flushed per stream
      open_block |-> 0,                 \* stream of a header block without END_HEADERS
      interleaved |-> FALSE,
      sent_after_reset |-> FALSE,
      steps |-> <<>>,                   \* what the last poll ran, in order
      was_gated |-> FALSE,              \* a poll was suspended by the handshake
      last |-> [op |-> "new", r |-> "pending", sid |-> 0, reason |-> NO_ERROR,
                suspended |-> FALSE, had_ready |-> FALSE, had_error |-> FALSE,
                touched |-> FALSE] ]

RECURSIVE EncodeList(_, _, _)
EncodeList(vals, pq, keep) ==
    IF vals = <<>> THEN [pq |-> pq, keep |-> keep]
    ELSE Bind(encode_frames(Head(vals)), LAMBDA e :
            EncodeList(Tail(vals), pq_send_frames(pq, e.frames),
                       IF e.isend THEN keep ELSE Append(keep, e.l)))

encode_response(h) ==
    Bind(EncodeList(h.response_queue, h.send_frames, <<>>), LAMBDA e :
        [h EXCEPT !.send_frames = e.pq, !.response_queue = e.keep])

go_away_now(h, e) == [h EXCEPT !.goaway.frame = <<GoAway(h.last_stream_id, e)>>]

goaway_poll_handle(h) ==
    IF h.goaway.frame = <<>> THEN [h |-> h, reason |-> <<>>]
    ELSE [h |-> [h EXCEPT !.goaway.sent = TRUE,
                          !.wire = IF h.goaway.sent THEN @ ELSE Append(@, h.goaway.frame[1])],
          reason |-> <<h.goaway.frame[1].reason>>]

RECURSIVE PaidBytes(_, _)
PaidBytes(frames, s) ==
    IF frames = <<>> THEN 0
    ELSE (IF Head(frames).kind = "data" /\ Head(frames).sid = s
          THEN Len(Head(frames).payload) ELSE 0) + PaidBytes(Tail(frames), s)

(* history of what a flush put on the socket *)
NoteSent(h, sent) ==
    [h EXCEPT !.paid = [s \in Sids |-> @[s] + PaidBytes(sent, s)],
              !.sent_after_reset = @ \/ \E k \in 1..Len(sent) : sent[k].sid \in h.reset]

(* history of what encode_response put into send_frames *)
NoteEncoded(h, h1) ==
    [h1 EXCEPT !.over_cap = @ \/
        \E k \in (Len(h.send_frames.q) + 1)..Len(h1.send_frames.q) :
            /\ h1.send_frames.q[k].kind = "data"
            /\ Len(h1.send_frames.q[k].payload) >
                  Min(h.max_send_frame_size,
                      Min(h.send_frames.window[h1.send_frames.q[k].sid],
                          h.send_frames.conn_window))]

control_poll_write(h) ==
    Bind(goaway_poll_handle(NoteEncoded(h, encode_response(h))), LAMBDA g :
        IF g.reason # <<>> THEN [h |-> g.h, err |-> g.reason]
        ELSE Bind(PqDrain(g.h.send_frames, <<>>, <<>>), LAMBDA d :
                [h |-> NoteSent([g.h EXCEPT !.send_frames = d.pq, !.wire = @ \o d.sent], d.sent),
                 err |-> <<>>]))

(* decode_frame: the branch taken while a header block is partial has an   *)
(* empty body, so every frame is parsed and returned                       *)
decode_frame(partial_inout, frame) ==
    IF partial_inout # <<>> /\ frame.kind # "continuation"
    THEN [ok |-> TRUE, frame |-> frame]
    ELSE [ok |-> TRUE, frame |-> frame]

codec_poll_next(h) ==
    IF h.inq # <<>>
    THEN Bind(decode_frame(h.partial, Head(h.inq)), LAMBDA d :
            [h |-> [h EXCEPT !.inq = Tail(@)], r |-> IF d.ok THEN "frame" ELSE "err",
             frame |-> d.frame])
    ELSE [h |-> h, r |-> IF h.closed THEN "none" ELSE "pending", frame |-> FrameOf("none", 0)]

recv_frame(h, frame) ==
    IF frame.sid = 0 THEN [h |-> h, ok |-> TRUE]
    ELSE Bind(IF h.recv_frames[frame.sid] = <<>>
              THEN [ok |-> TRUE, st |-> InnerStreamNew(frame)]
              ELSE inner_push(h.recv_frames[frame.sid][1], frame), LAMBDA p :
            IF ~p.ok THEN [h |-> h, ok |-> FALSE]
            ELSE [h |-> [h EXCEPT !.recv_frames[frame.sid] = <<p.st>>,
                                  !.last_stream_id = Max(@, frame.sid),
                                  !.ready_queue = IF frame.end_headers
                                                  THEN Append(@, frame.sid) ELSE @],
                  ok |-> TRUE])

(* the match on the frame read (control.rs:172-197) *)
Dispatch(h, frame) ==
    IF frame.kind \in {"data", "headers"} THEN recv_frame(h, frame)
    ELSE IF frame.kind = "goaway" THEN [h |-> [h EXCEPT !.error = <<frame>>], ok |-> TRUE]
    ELSE [h |-> h, ok |-> TRUE]

(* history of the frames read *)
Observe(h, frame, ok) ==
    [h EXCEPT
        !.eh_log = IF frame.kind \in {"data", "headers"} /\ frame.sid # 0
                      /\ frame.end_headers /\ ok
                   THEN Append(@, frame.sid) ELSE @,
        !.hdr_seen = IF frame.kind = "headers" THEN @ \cup {frame.sid} ELSE @,
        !.data_first = IF frame.kind = "data" /\ frame.sid \notin h.hdr_seen
                       THEN @ \cup {frame.sid} ELSE @,
        !.reset = IF frame.kind = "reset" THEN @ \cup {frame.sid} ELSE @,
        !.credits = IF frame.kind = "window_update"
                    THEN [@ EXCEPT ![frame.sid] = @ + frame.inc] ELSE @,
        !.interleaved = @ \/ (h.open_block # 0 /\ frame.kind # "continuation"),
        !.open_block = IF h.open_block = 0 /\ frame.kind \in {"headers", "push_promise"}
                          /\ ~frame.end_headers
                       THEN frame.sid ELSE @]

BuildFrameWith(h, back) ==
    IF h.ready_queue = <<>> THEN [h |-> h, r |-> "none", sid |-> 0]
    ELSE Bind(IF back THEN h.ready_queue[Len(h.ready_queue)] ELSE Head(h.ready_queue),
              LAMBDA stream_id :
            [h |-> [h EXCEPT !.ready_queue = IF back THEN Take(@, Len(@) - 1) ELSE Tail(@),
                             !.recv_frames[stream_id][1].built = @ + 1],
             r |-> "msg", sid |-> stream_id])

(* mutant: pop_back instead of pop_front *)
build_request_frame_PopBack(h) == BuildFrameWith(h, TRUE)

build_request_frame(h) == BuildFrameWith(h, FALSE)

build_response_frame(h) == BuildFrameWith(h, FALSE)

PollRet(h, r, sid, reason, suspended) ==
    [h |-> h, r |-> r, sid |-> sid, reason |-> reason, suspended |-> suspended]

Step(h, name) == [h EXCEPT !.steps = Append(@, name)]

(* StateHandshake.poll_handle: a client writes the preface, a server reads *)
(* the peer's preface and verifies it                                      *)
handshake_poll_handle(h) ==
    Bind([h EXCEPT !.steps = <<"handshake">>], LAMBDA g :
        CASE g.handshake = "done" -> [h |-> g, r |-> "ready"]
          [] g.handshake = "failed" -> [h |-> g, r |-> "err"]
          [] ~g.is_server -> [h |-> [g EXCEPT !.handshake = "done"], r |-> "ready"]
          [] g.preface = "good" -> [h |-> [g EXCEPT !.handshake = "done"], r |-> "ready"]
          [] g.preface = "bad" \/ g.closed ->
                [h |-> [g EXCEPT !.handshake = "failed"], r |-> "err"]
          [] OTHER -> [h |-> [g EXCEPT !.was_gated = TRUE], r |-> "pending"])

(* StateSettings.poll_handle: the local SETTINGS go out once *)
setting_poll_handle(h) == Step([h EXCEPT !.setting_sent = TRUE], "settings")

(* the loop of poll_request / poll_response *)
RECURSIVE PollLoop(_, _, _)
PollLoop(h, is_req, check_error) ==
    Bind(control_poll_write(Step(setting_poll_handle(h), "write")), LAMBDA w :
        IF w.err # <<>> THEN PollRet(w.h, "go_away", 0, w.err[1], FALSE)
        ELSE Bind(codec_poll_next(Step(w.h, "read")), LAMBDA n :
            IF n.r = "frame"
            THEN Bind(Dispatch(n.h, n.frame), LAMBDA d :
                    IF ~d.ok
                    THEN PollRet(Observe(d.h, n.frame, FALSE), "stream_err", n.frame.sid,
                                 NO_ERROR, FALSE)
                    ELSE PollLoop(Observe(d.h, n.frame, TRUE), is_req, check_error))
            ELSE IF n.r = "none" THEN PollRet(n.h, "none", 0, NO_ERROR, FALSE)
            ELSE Bind(IF is_req THEN build_request_frame(n.h) ELSE build_response_frame(n.h),
                      LAMBDA b :
                    IF b.r = "msg" THEN PollRet(b.h, "msg", b.sid, NO_ERROR, TRUE)
                    ELSE IF check_error /\ b.h.error # <<>>
                    THEN PollRet(b.h, "go_away", 0, b.h.error[1].reason, TRUE)
                    ELSE PollRet(b.h, "pending", 0, NO_ERROR, TRUE))))

(* poll_request / poll_response: the handshake, then the loop *)
PollWith(h, is_req, check_error, gated) ==
    IF ~gated THEN PollLoop([h EXCEPT !.steps = <<>>], is_req, check_error)
    ELSE Bind(handshake_poll_handle(h), LAMBDA g :
            IF g.r = "pending" THEN PollRet(g.h, "pending", 0, NO_ERROR, FALSE)
            ELSE IF g.r = "err" THEN PollRet(g.h, "handshake_err", 0, NO_ERROR, FALSE)
            ELSE PollLoop(g.h, is_req, check_error))

(* mutant: the stored GOAWAY is not looked at *)
control_poll_request_NoErrorCheck(h) == PollWith(h, TRUE, FALSE, TRUE)

(* mutant: the loop runs without waiting for the handshake *)
control_poll_request_NoHandshake(h) == PollWith(h, TRUE, TRUE, FALSE)

control_poll_request(h) == PollWith(h, TRUE, TRUE, TRUE)

control_poll_response(h) == PollWith(h, FALSE, TRUE, TRUE)

send_response_may_push(h, res, stream_id, push) ==
    [h EXCEPT !.response_queue =
        Append(@, SendResponseNew(stream_id, push, res, res.body.is_end))]

control_send_response(h, res, stream_id) == send_response_may_push(h, res, stream_id, <<>>)

----------------------------------------------------------------------------
(* HTTP/2: the state machine *)

RECURSIVE HeadersDown(_)
HeadersDown(n) == IF n = 0 THEN <<>> ELSE <<Headers(n, TRUE, FALSE)>> \o HeadersDown(n - 1)

RECURSIVE HeadersUp(_)
HeadersUp(n) == IF n = 0 THEN <<>> ELSE HeadersUp(n - 1) \o <<Headers(n, TRUE, TRUE)>>

(* what the peer sends *)
H2Scripts ==
    { <<>>,
      HeadersDown(MaxStreams) \o <<Data(1, <<1>>, TRUE)>>,
      HeadersUp(MaxStreams),
      <<Headers(1, TRUE, TRUE), GoAway(1, NO_ERROR)>>,
      HeadersUp(MaxStreams) \o <<GoAway(1, PROTOCOL_ERROR)>>,
      <<GoAway(0, PROTOCOL_ERROR), Headers(1, TRUE, TRUE)>>,
      <<Headers(1, TRUE, TRUE), WindowUpdate(1, 1), WindowUpdate(0, 1)>>,
      <<Headers(1, TRUE, FALSE), Reset(1), Data(1, <<1>>, TRUE)>>,
      <<Data(1, <<1>>, FALSE), Headers(1, TRUE, TRUE)>>,
      <<Headers(1, FALSE, FALSE), Headers(2, TRUE, FALSE), Data(2, <<1>>, TRUE)>>,
      <<Headers(1, TRUE, FALSE), Data(1, <<1>>, FALSE), Headers(1, TRUE, TRUE)>> }

(* Content-Length: 0 and no body; no Content-Length and no body; no        *)
(* Content-Length and a body, held in memory or streamed through a channel *)
ResponseShapes ==
    { [clen |-> "zero", empty |-> TRUE, streamed |-> FALSE],
      [clen |-> "none", empty |-> TRUE, streamed |-> FALSE],
      [clen |-> "none", empty |-> FALSE, streamed |-> FALSE],
      [clen |-> "none", empty |-> FALSE, streamed |-> TRUE] }

ResponseShapes_Client == [clen |-> "none", empty |-> TRUE, streamed |-> FALSE]

(* the Body of a response of this shape on stream sid; a streamed Body     *)
(* starts with its bytes and an open channel                               *)
ShapeBody(shape, sid) ==
    IF shape.empty THEN BodyDefault
    ELSE IF shape.streamed THEN BodyNew(MsgBody(sid), FALSE)
    ELSE BodyOnly(MsgBody(sid))

H2Init ==
    /\ BodyIdle
    /\ IoIdle
    /\ \E is_server \in BOOLEAN, w \in 1..MaxWindow, script \in H2Scripts :
        \E shape \in (IF is_server THEN ResponseShapes ELSE {ResponseShapes_Client}) :
            h2 = ControlNew(is_server, w, script, shape)

(* a client starts with the connection preface, well-formed or not *)
PeerSendPreface ==
    /\ h2 # <<>>
    /\ h2.is_server /\ h2.preface = "none" /\ ~h2.closed
    /\ \E p \in {"good", "bad"} : h2' = [h2 EXCEPT !.preface = p]
    /\ UNCHANGED <<bodyVars, ioVars>>

PeerSendFrame ==
    /\ h2 # <<>>
    /\ h2.peer_left # <<>> /\ ~h2.closed
    /\ h2.is_server => h2.preface # "none"
    /\ h2' = [h2 EXCEPT !.inq = Append(@, Head(h2.peer_left)), !.peer_left = Tail(@)]
    /\ UNCHANGED <<bodyVars, ioVars>>

PeerCloseSocket ==
    /\ h2 # <<>>
    /\ ~h2.closed
    /\ h2' = [h2 EXCEPT !.closed = TRUE, !.peer_left = <<>>]
    /\ UNCHANGED <<bodyVars, ioVars>>

PollLog(op, p, pre) ==
    [p.h EXCEPT
        !.delivered = IF p.r = "msg" THEN Append(@, p.sid) ELSE @,
        !.last = [op |-> op, r |-> p.r, sid |-> p.sid, reason |-> p.reason,
                  suspended |-> p.suspended,
                  had_ready |-> pre.ready_queue # <<>>,
                  had_error |-> pre.error # <<>>,
                  touched |-> \/ p.h.inq # pre.inq \/ p.h.partial # pre.partial
                              \/ p.h.recv_frames # pre.recv_frames
                              \/ p.h.response_queue # pre.response_queue
                              \/ p.h.send_frames # pre.send_frames
                              \/ p.h.wire # pre.wire
                              \/ p.h.setting_sent # pre.setting_sent
                              \/ p.r = "msg"]]

ControlPollRequest ==
    /\ h2 # <<>>
    /\ h2.is_server
    /\ \E p \in {control_poll_request(h2)} : h2' = PollLog("poll_request", p, h2)
    /\ UNCHANGED <<bodyVars, ioVars>>

ControlPollResponse ==
    /\ h2 # <<>>
    /\ ~h2.is_server
    /\ \E p \in {control_poll_response(h2)} : h2' = PollLog("poll_response", p, h2)
    /\ UNCHANGED <<bodyVars, ioVars>>

Answer(sid, parent, push, clen, empty) ==
    [sid |-> sid, parent |-> parent, push |-> push, clen |-> clen,
     bytes |-> IF empty THEN <<>> ELSE MsgBody(sid)]

(* the handler answers the requests in the order it was given them; the   *)
(* shape of its responses (Content-Length header, body) is one per run     *)
ControlSendResponse ==
    /\ h2 # <<>>
    /\ h2.is_server
    /\ \E k \in 1..Len(h2.delivered) :
        /\ h2.delivered[k] \notin h2.answered
        /\ \A j \in 1..(k - 1) : h2.delivered[j] \in h2.answered
        /\ h2' = [control_send_response(h2,
                      H2Response(h2.shape.clen, ShapeBody(h2.shape, h2.delivered[k])),
                      h2.delivered[k])
                  EXCEPT !.answered = @ \cup {h2.delivered[k]},
                         !.responses = @ \cup {Answer(h2.delivered[k], h2.delivered[k], FALSE,
                                                      h2.shape.clen, h2.shape.empty)}]
    /\ UNCHANGED <<bodyVars, ioVars>>

(* the handler pushes a response on a new stream, promised on the stream of *)
(* the first request it was given; one push per connection                 *)
ControlSendPush ==
    /\ h2 # <<>>
    /\ h2.is_server
    /\ h2.delivered # <<>>
    /\ \A a \in h2.responses : ~a.push
    /\ h2' = [send_response_may_push(h2,
                  H2Response(h2.shape.clen, ShapeBody(h2.shape, PUSH_ID)),
                  h2.delivered[1], <<PUSH_ID>>)
              EXCEPT !.responses = @ \cup {Answer(PUSH_ID, h2.delivered[1], TRUE,
                                                  h2.shape.clen, h2.shape.empty)}]
    /\ UNCHANGED <<bodyVars, ioVars>>

(* the handler ends a streamed response body: with an empty last chunk, or *)
(* by dropping the sender                                                  *)
HandlerEndBody ==
    /\ h2 # <<>>
    /\ \E k \in 1..Len(h2.response_queue), last_chunk \in BOOLEAN :
        /\ h2.response_queue[k].response.body.rx.kind = "chan"
        /\ ~h2.response_queue[k].response.body.rx.closed
        /\ h2' = [h2 EXCEPT !.response_queue[k].response.body.rx =
                      [@ EXCEPT !.closed = TRUE,
                                !.q = IF last_chunk
                                      THEN Append(@, [is_end |-> TRUE, bin |-> <<>>])
                                      ELSE @]]
    /\ UNCHANGED <<bodyVars, ioVars>>

(* the owner of the connection answers a failed poll with a GOAWAY *)
GoAwayNow ==
    /\ h2 # <<>>
    /\ h2.last.r \in {"stream_err", "go_away"}
    /\ h2.goaway.frame = <<>>
    /\ h2' = go_away_now(h2, PROTOCOL_ERROR)
    /\ UNCHANGED <<bodyVars, ioVars>>

H2Next ==
    \/ PeerSendPreface
    \/ PeerSendFrame
    \/ PeerCloseSocket
    \/ ControlPollRequest
    \/ ControlPollResponse
    \/ ControlSendResponse
    \/ ControlSendPush
    \/ HandlerEndBody
    \/ GoAwayNow

H2Spec == H2Init /\ [][H2Next]_vars

----------------------------------------------------------------------------
(* Properties of the Body *)

OptBytes(o) == IF o = <<>> THEN <<>> ELSE o[1]

(* every byte that was fed and not yet handed out, in pipeline order *)
InFlight(b) ==
    b.cache_body_data \o OptBytes(b.origin_buf) \o OptBytes(b.read_buf)
        \o Flatten(b.rx.q)
        \o (IF b.rx.broken THEN <<>> ELSE Take(b.rx.file, b.rx.data_size))

PassThroughCfg(b) == b.origin_set = b.now_compress_method /\ ~b.is_chunked

Buffered(b) == Len(OptBytes(b.read_buf)) + Len(b.cache_body_data)

ReadOps == {"poll_read", "poll_encode_write", "read_data", "read_now", "read_all"}

(* C1: once is_process_end is set it stays set; from then on no operation  *)
(* changes origin_buf or read_buf, the output buffer only shrinks (by what *)
(* a read hands out), every operation returns Ok, and once the output      *)
(* buffer is empty no read hands out a byte.                               *)
C1_TerminalAfterEnd ==
    [][ body.is_process_end =>
          /\ body'.is_process_end
          /\ body'.origin_buf = body.origin_buf
          /\ body'.read_buf = body.read_buf
          /\ IsSuffix(body'.cache_body_data, body.cache_body_data)
          /\ (last' # last => last'.r = "ready")
          /\ (body.cache_body_data = <<>> => out' = out) ]_vars

C1_Witness ==
    /\ body.is_process_end
    /\ body.cache_body_data = <<>>
    /\ body.is_chunked
    /\ last.op = "poll_read" /\ last.pre_end /\ last.n = 0
    /\ Len(out) > StreamLen

(* C2: with origin == now and chunking off, the bytes handed out followed  *)
(* by the bytes still inside the pipeline are exactly the bytes fed, in    *)
(* order; and a terminal Body holds nothing outside its output buffer.     *)
C2_PassThrough ==
    PassThroughCfg(body) =>
        /\ out \o InFlight(body) = Fed
        /\ (body.is_process_end => out \o body.cache_body_data = Fed)

C2_Witness ==
    /\ PassThroughCfg(body)
    /\ body.origin_set = COMPRESS_METHOD_GZIP
    /\ body.rx.kind = "chan"
    /\ body.is_process_end
    /\ body.cache_body_data = <<>>
    /\ out = Stream
    /\ last.op = "poll_read"

(* C3: after check_over_limit has dropped the permit, and until            *)
(* notify_some_read has added one, no poll pulls a chunk from the channel  *)
(* or the file.                                                            *)
C3_GateSuspends ==
    [][ (body.over_limit /\ CallerFree) =>
            /\ Len(body'.rx.q) >= Len(body.rx.q)
            /\ body'.rx.file = body.rx.file ]_vars

(* C4: read_buf plus cache_body_data never hold more than max_read_buf     *)
(* plus one chunk.                                                         *)
C4_BoundedBuffering == Buffered(body) <= body.max_read_buf + MaxChunk

(* C5 (as amended): a newly constructed Body has a semaphore of 10         *)
(* permits, holds no permit and has max_read_buf = 10,485,760.             *)
C5_NewBody ==
    last.op = "new" => body.sem = 10 /\ ~body.permit /\ body.max_read_buf = 10485760

(* C5 as stated: the initial budget is exactly 1 permit.                   *)
C5_Original ==
    last.op = "new" => body.sem = 1 /\ ~body.permit /\ body.max_read_buf = 10485760

C5_Witness == last.op = "new" /\ body.rx.kind = "chan" /\ body.origin_buf # <<>>

----------------------------------------------------------------------------
(* Properties of the IoBuffer *)

RECURSIVE WireAll(_)
WireAll(ids) == IF ids = <<>> THEN <<>> ELSE MsgWire(Head(ids)) \o WireAll(Tail(ids))

Count(t, seq) == Cardinality({j \in 1..Len(seq) : seq[j] = t})

(* C6: what a server IoBuffer has appended to write_buf is, byte for byte, *)
(* the responses in the order of send_response (which is the order the     *)
(* requests were yielded): header and whole body of one response, then the *)
(* next response.                                                          *)
C6_PipelineOrder ==
    io # <<>> /\ io.is_server =>
        /\ IsPrefix(hist.sent, hist.yielded)
        /\ IsPrefix(Emitted, WireAll(hist.sent))

C6_Witness ==
    /\ io # <<>> /\ io.is_server
    /\ Len(hist.sent) = MaxReqs
    /\ MaxReqs > 1
    /\ net.wrote = WireAll(hist.sent)

(* C7: is_send_header of a direction is set only while the message whose   *)
(* header was encoded is the front of that direction's list; no header is  *)
(* encoded twice; the popped messages are in write_buf whole.              *)
C7_OneActiveMessage ==
    io # <<>> =>
        /\ io.res_status.is_send_header =>
              io.res_list # <<>> /\ Head(io.res_list).id = io.hdr_res
        /\ io.req_status.is_send_header =>
              io.req_list # <<>> /\ Head(io.req_list).id = io.hdr_req
        /\ \A id \in 1..MaxReqs : Count(MsgHdr(id), Emitted) <= 1
        /\ IsPrefix(WireAll(io.popped_res \o io.popped_req), Emitted)

C7_Witness ==
    /\ io # <<>>
    /\ io.res_status.is_send_header
    /\ Len(io.res_list) > 1
    /\ io.res_list[1].rest # <<>>

(* C8: poll_request does not run the request parser on bytes of the read   *)
(* buffer while the body of the current request is still being read.       *)
C8_NoParseInBody ==
    io # <<>> /\ hist.last.op = "poll_request" => ~hist.last.in_body

(* C9: a poll_request made when the last request was not keep-alive, its   *)
(* response is out and write_buf is empty returns end-of-stream.           *)
C9_CloseWhenNotKeepAlive ==
    io # <<>> /\ hist.last.op = "poll_request" /\ hist.last.close_due =>
        hist.last.r = "none"

C11_CloseMidResponse ==
    io # <<>> /\ hist.eof_in_body /\ hist.last.op = "poll_response" /\ ~hist.done =>
        /\ io.is_delay_close
        /\ io.read_sender # <<>> /\ io.read_sender[1].ended
        /\ (hist.pre.delay_close => hist.last.r = "none")

(* C12: a request whose content length is 0 is yielded with an ended Body, *)
(* no body channel and the read state back at header parsing; and          *)
(* left_read_body_len is usize::MAX only for a chunked or unknown-length   *)
(* body.                                                                   *)
C12_RequestBodyConstruction ==
    io # <<>> /\ hist.last.op = "poll_request" /\ hist.last.r = "req" =>
        /\ hist.got.kind \in {GET_KEEP, GET_CLOSE, POST_ZERO} =>
              /\ hist.got.recv_end
              /\ io.read_sender = <<>>
              /\ ~io.req_status.is_read_header_end
        /\ hist.got.kind \notin {GET_KEEP, GET_CLOSE, POST_ZERO} => io.read_sender # <<>>
        /\ hist.got.left = USIZE_MAX => hist.got.kind = POST_CHUNKED

----------------------------------------------------------------------------
(* Properties of the HTTP/2 Control *)

H2Polls == {"poll_request", "poll_response"}

(* C14: the messages handed out by build_request_frame /                   *)
(* build_response_frame are for the stream ids in exactly the order in     *)
(* which recv_frame took their END_HEADERS frames                          *)
C14_ReadyFifo ==
    h2 # <<>> => IsPrefix(h2.delivered, h2.eh_log)

(* a message was handed out while a stream with a smaller id, completed    *)
(* later, is still waiting                                                 *)
C14_Witness ==
    /\ h2 # <<>>
    /\ h2.last.r = "msg"
    /\ h2.ready_queue # <<>>
    /\ h2.last.sid > Head(h2.ready_queue)

(* C15: once a GOAWAY of the peer is stored, a poll that reaches the point *)
(* where reading would suspend hands out a ready message if there is one,  *)
(* and otherwise returns library_go_away with the peer's reason; it never  *)
(* returns Pending                                                         *)
C15_PeerGoAwayFails ==
    h2 # <<>> /\ h2.last.op \in H2Polls /\ h2.last.suspended /\ h2.error # <<>> =>
        \/ h2.last.r = "msg"
        \/ /\ h2.last.r = "go_away"
           /\ h2.last.reason = h2.error[1].reason
           /\ h2.ready_queue = <<>>

C15_Witness ==
    /\ h2 # <<>>
    /\ h2.last.r = "go_away" /\ h2.last.suspended /\ h2.last.had_error
    /\ h2.error # <<>> /\ h2.last.reason = PROTOCOL_ERROR
    /\ Len(h2.delivered) >= 2

(* C16: after a GOAWAY with NO_ERROR the connection ends with               *)
(* end-of-stream once the ready streams are handed out; after a GOAWAY     *)
(* with another reason no stream above its last_stream_id is handed out    *)
C16_GracefulGoAway ==
    h2 # <<>> /\ h2.last.op \in H2Polls /\ h2.error # <<>> =>
        /\ h2.error[1].reason = NO_ERROR /\ h2.last.suspended /\ h2.last.r # "msg"
              => h2.last.r = "none"
        /\ h2.error[1].reason # NO_ERROR /\ h2.last.r = "msg"
              => h2.last.sid <= h2.error[1].last_stream_id

(* C17: every WINDOW_UPDATE read is credited: a send window is the initial *)
(* window, plus the increments read for it, minus the DATA bytes sent      *)
C17_WindowUpdateCredits ==
    h2 # <<>> =>
        \A s \in Sids :
            h2.send_frames.window[s] + h2.paid[s] = h2.initial_window + h2.credits[s]

(* C18: after a RST_STREAM was read for a stream, no message of that       *)
(* stream is handed out and no frame of it is sent                         *)
C18_ResetTerminates ==
    h2 # <<>> =>
        /\ h2.last.r = "msg" => h2.last.sid \notin h2.reset
        /\ ~h2.sent_after_reset

(* C19: a DATA frame on a stream that had no HEADERS creates no stream and *)
(* makes the Control queue a GOAWAY with PROTOCOL_ERROR                    *)
C19_DataBeforeHeaders ==
    h2 # <<>> =>
        \A s \in h2.data_first :
            /\ h2.recv_frames[s] = <<>>
            /\ h2.goaway.frame # <<>>
            /\ h2.goaway.frame[1].reason = PROTOCOL_ERROR

(* C20: while a header block is open (HEADERS without END_HEADERS), no     *)
(* frame other than a CONTINUATION gets through decode_frame               *)
C20_ContinuationEnforced ==
    h2 # <<>> => ~h2.interleaved

(* the frames of one response on the socket: those sent on its stream and  *)
(* the PUSH_PROMISE that promised it                                       *)
WireOf(sid) ==
    SelectSeq(h2.wire, LAMBDA f : \/ (f.kind \in {"headers", "data"} /\ f.sid = sid)
                                  \/ (f.kind = "push_promise" /\ f.promised = sid))

RECURSIVE Payloads(_)
Payloads(frames) ==
    IF frames = <<>> THEN <<>> ELSE Head(frames).payload \o Payloads(Tail(frames))

(* the response was encoded to its end and all its frames were flushed *)
Retired(a) ==
    /\ \A k \in 1..Len(h2.response_queue) :
          /\ h2.response_queue[k].stream_id # a.sid
          /\ a.push => h2.response_queue[k].push_id = <<>>
    /\ \A k \in 1..Len(h2.send_frames.q) :
          /\ h2.send_frames.q[k].sid # a.sid
          /\ h2.send_frames.q[k].promised # a.sid
    /\ WireOf(a.sid) # <<>>

(* C21: the DATA frames of a pushed response come after a HEADERS frame on *)
(* the promised stream, which follows the PUSH_PROMISE on the parent       *)
(* stream; a response that is not pushed has one HEADERS frame             *)
C21_PushPromiseFraming ==
    h2 # <<>> =>
        /\ \A j \in 1..Len(h2.wire) :
              /\ h2.wire[j].kind = "data"
              /\ \E k \in 1..(j - 1) : /\ h2.wire[k].kind = "push_promise"
                                       /\ h2.wire[k].promised = h2.wire[j].sid
              => \E k \in 1..(j - 1) : /\ h2.wire[k].kind = "headers"
                                       /\ h2.wire[k].sid = h2.wire[j].sid
        /\ \A a \in h2.responses :
              ~a.push =>
                  Len(SelectSeq(h2.wire, LAMBDA f : f.kind = "headers" /\ f.sid = a.sid)) <= 1

(* C22: the DATA payloads of a response are its body, one frame of it      *)
(* carries END_STREAM, and that frame is its last                          *)
C22_EndStreamLast ==
    h2 # <<>> =>
        \A a \in h2.responses :
            Retired(a) =>
                /\ Payloads(WireOf(a.sid)) = a.bytes
                /\ \A k \in 1..Len(WireOf(a.sid)) :
                      WireOf(a.sid)[k].end_stream <=> k = Len(WireOf(a.sid))

(* C23: no DATA frame made by encode_frames is larger than the smallest of *)
(* the stream window, the connection window and max_send_frame_size        *)
C23_DataSizeCap ==
    h2 # <<>> => ~h2.over_cap

----------------------------------------------------------------------------
(* Further properties of the Body *)

(* everything the encode stage has produced so far *)
Encoded == out \o body.cache_body_data

(* the payload of a sequence of whole chunks; ok is FALSE if it is not one *)
RECURSIVE Unchunk(_, _)
Unchunk(bytes, acc) ==
    IF bytes = <<>> THEN [ok |-> TRUE, payload |-> acc]
    ELSE IF ~IsChunkHead(Head(bytes)) \/ Len(bytes) - 1 < Head(bytes) - ChunkHead(0)
    THEN [ok |-> FALSE, payload |-> acc]
    ELSE Unchunk(Drop(bytes, 1 + Head(bytes) - ChunkHead(0)),
                 acc \o Take(Tail(bytes), Head(bytes) - ChunkHead(0)))

PipelineOps == {"new", "config", "poll_read", "poll_encode_write", "read_data"}

(* C24: with is_chunked set the output is a sequence of whole chunks       *)
(* wrapped around the output of the compression stage; it holds no         *)
(* zero-length chunk before the end is processed and exactly one, at its   *)
(* very end, afterwards                                                    *)
C24_ChunkedTermination ==
    body # <<>> /\ body.is_chunked /\ last.op \in PipelineOps =>
        /\ Unchunk(Encoded, <<>>).ok
        /\ Count(ChunkHead(0), Encoded) = (IF body.is_process_end THEN 1 ELSE 0)
        /\ body.is_process_end => Encoded[Len(Encoded)] = ChunkHead(0)
        /\ get_now_compress(body) = COMPRESS_METHOD_GZIP /\ Encoded # <<>>
              => Head(Unchunk(Encoded, <<>>).payload) = Hdr(COMPRESS_METHOD_GZIP)

(* a compressed, chunked body read in several steps, to its end *)
C24_Witness ==
    /\ body # <<>> /\ body.is_chunked /\ body.is_process_end
    /\ last.op \in {"poll_encode_write", "read_data"}
    /\ get_now_compress(body) = COMPRESS_METHOD_GZIP
    /\ Count(ChunkHead(0), out) = 1
    /\ \E n \in 1..StreamLen : Count(ChunkHead(n), out) >= 1
    /\ Len(Unchunk(out, <<>>).payload) >= StreamLen + 2

(* C25: once poll_recv gave None (the channel was closed, or the file read *)
(* failed) the body is at its end, the step that met it has flushed and    *)
(* made the Body terminal, and the source is not touched again             *)
C25_SourceExhaustionEnds ==
    body # <<>> /\ body.none_seen # <<>> =>
        /\ body.is_end
        /\ body.is_process_end
        /\ body.rx = body.none_seen[1]

(* a file Body whose read failed after part of the file was handed out *)
C25_Witness ==
    /\ body # <<>> /\ body.none_seen # <<>>
    /\ body.rx.kind = "file" /\ body.rx.broken
    /\ body.is_process_end
    /\ out # <<>> /\ Len(out) < StreamLen

(* C26: the operation during which decoding a chunk fails returns an error *)
(* to its caller, and the Body hands out nothing afterwards                *)
C26_DecodeFailureSurfaced ==
    [][ /\ body'.decode_failed /\ ~body.decode_failed
           /\ last'.op \in {"poll_read", "poll_encode_write", "read_data", "read_all"}
           => last'.r = "err"
        /\ body.decode_failed => out' = out ]_vars

(* C27: after set_start_end(start, end) the file source never hands out    *)
(* more than min(end - start, bytes from start), its remaining size does   *)
(* not underflow, it has handed out exactly that many bytes when a chunk   *)
(* carried is_end, and the read that uses up the range carries is_end      *)
C27_FileRangeCap ==
    body.rx.kind = "file" /\ body.rx.asked # <<>> =>
        /\ body.rx.data_size >= 0
        /\ body.rx.delivered + body.rx.data_size = body.rx.asked[2] - body.rx.asked[1]
        /\ body.rx.delivered <= Min(body.rx.asked[2] - body.rx.asked[1], body.rx.avail)
        /\ body.rx.ended =>
              body.rx.delivered = Min(body.rx.asked[2] - body.rx.asked[1], body.rx.avail)
        /\ body.rx.reads > 0 /\ body.rx.data_size = 0 => body.rx.ended

(* a range that ends inside the file, read in more than one chunk *)
C27_Witness ==
    /\ body.rx.kind = "file" /\ body.rx.asked # <<>>
    /\ body.rx.asked[2] - body.rx.asked[1] < body.rx.avail
    /\ body.rx.reads >= 2 /\ body.rx.ended
    /\ body.rx.delivered = body.rx.asked[2] - body.rx.asked[1]
    /\ Len(out) >= body.rx.delivered

(* C28: when wait_all or read_all has returned, the Body has seen its end  *)
C28_DrainUntilEnd ==
    body # <<>> /\ last.op \in {"wait_all", "read_all"} /\ pc = "idle" => body.is_end

----------------------------------------------------------------------------
(* Further properties of the HTTP/2 Control *)

(* the loop's rounds: the settings state, then the write, then the read *)
RECURSIVE Rounds(_)
Rounds(s) ==
    \/ s = <<>>
    \/ /\ Len(s) >= 2 /\ s[1] = "settings" /\ s[2] = "write"
       /\ \/ Len(s) = 2
          \/ s[3] = "read" /\ Rounds(SubSeq(s, 4, Len(s)))

(* C29: a poll whose handshake has not completed reads no frame, encodes   *)
(* and sends nothing, delivers no message and runs no other state: it       *)
(* returns Pending while the handshake waits and the handshake's error when *)
(* it failed.  A poll whose handshake is complete ran the handshake first   *)
(* and then, in every round of the loop, the settings state before the      *)
(* write and the read.                                                      *)
C29_HandshakeGates ==
    h2 # <<>> /\ h2.last.op \in H2Polls =>
        /\ h2.handshake # "done" =>
              /\ ~h2.last.touched
              /\ h2.steps = <<"handshake">>
              /\ h2.last.r = (IF h2.handshake = "wait" THEN "pending" ELSE "handshake_err")
        /\ h2.handshake = "done" =>
              /\ h2.steps # <<>> /\ h2.steps[1] = "handshake"
              /\ Len(h2.steps) >= 3
              /\ Rounds(Tail(h2.steps))

(* a server that was held back by the handshake later delivers a request *)
C29_Witness ==
    /\ h2 # <<>> /\ h2.is_server
    /\ h2.was_gated /\ h2.handshake = "done"
    /\ h2.last.r = "msg" /\ h2.last.touched
    /\ Len(h2.steps) >= 7

----------------------------------------------------------------------------
(* Further properties of the HTTP/1 IoBuffer *)

(* C30: a server connection that reports idle has, for every request that *)
(* poll_request yielded, written the response in full, and holds no        *)
(* unfinished message in either list                                       *)
C30_IdleOnlyWhenQuiet ==
    io.is_server /\ io.is_idle =>
        /\ Len(hist.yielded) = Len(io.popped_res)
        /\ io.res_list = <<>> \/ io.res_status.is_send_finish
        /\ io.req_list = <<>> \/ io.req_status.is_send_finish

----------------------------------------------------------------------------
(* Last properties of the Body *)

Held(b) == IF b.permit THEN 1 ELSE 0

(* C31: the permits available plus the one the Body holds never exceed the *)
(* initial budget; and notify_some_read, on the Body in any permit state,  *)
(* adds one permit when none is held and none is available and changes     *)
(* nothing otherwise                                                       *)
C31_TopUpToOne ==
    /\ body.sem + Held(body) <= SEM_PERMITS
    /\ \A p \in BOOLEAN, n \in 0..SEM_PERMITS :
          \E b \in {[body EXCEPT !.permit = p, !.sem = n]} :
          \E nb \in {notify_some_read(b)} :
              /\ nb.permit = p
              /\ nb.sem = (IF ~p /\ n = 0 THEN 1 ELSE n)
              /\ [nb EXCEPT !.over_limit = FALSE] = [b EXCEPT !.sem = nb.sem, !.over_limit = FALSE]

(* the gate dropped the permit and a read then ran notify_some_read *)
C31_Witness ==
    /\ body.over_limit /\ ~body.permit /\ body.sem = SEM_PERMITS
    /\ last.op \in ReadOps /\ last.n > 0

(* C32: every chunk handed to decode_read_data while the Body decodes is   *)
(* written to the decompressor of the origin method                        *)
C32_DecodeConsumesInput == ~body.dec_dropped

(* the Body as process_data leaves it inside the read operation op *)
Piped(op, b, k) ==
    CASE op = "poll_read" -> process_data(b, <<k>>).b
      [] op = "read_data" -> process_data(b, <<>>).b
      [] OTHER -> Bind(process_data(b, <<k>>), LAMBDA p :
                        IF p.r # "ready" THEN p.b ELSE process_data(p.b, <<>>).b)

(* a step of the source, not of the reader *)
SourceStep ==
    /\ last' = last /\ out' = out /\ pc' = pc
    /\ body' = [body EXCEPT !.rx = body'.rx]

OutputOps == {"poll_read", "poll_encode_write", "read_data"}

(* C33: a read operation hands out bytes from the front of what            *)
(* process_data left in cache_body_data and keeps the rest there, so the   *)
(* bytes handed out followed by cache_body_data are the bytes handed out   *)
(* before followed by the processed output; poll_read hands out at most    *)
(* the caller's capacity, poll_encode_write and read_data leave            *)
(* cache_body_data empty                                                   *)
C33_OutputConservation ==
    [][ last'.op \in OutputOps /\ pc' = "idle" /\ ~SourceStep =>
          /\ \E k \in 0..MaxK :
                out' \o body'.cache_body_data = out \o Piped(last'.op, body, k).cache_body_data
          /\ IsPrefix(out, out') /\ Len(out') - Len(out) = last'.n
          /\ last'.op = "poll_read" => last'.n <= MaxCap
          /\ last'.op # "poll_read" /\ last'.r = "ready" => body'.cache_body_data = <<>> ]_vars

(* poll_encode_write handed out the end of a chunked body and left         *)
(* cache_body_data empty                                                   *)
C33_Witness ==
    /\ last.op = "poll_encode_write" /\ last.r = "ready" /\ last.n > 0
    /\ body.cache_body_data = <<>>
    /\ body.is_process_end /\ body.is_chunked
    /\ Len(out) > StreamLen + 1

(* C35: when poll_read has returned Ready without handing out a byte and  *)
(* without leaving one in cache_body_data (so the caller's capacity played *)
(* no part), the Body is terminal                                          *)
C35_NoPrematureEof ==
    last.op = "poll_read" /\ last.r = "ready" /\ last.n = 0 /\ body.cache_body_data = <<>>
        => body.is_process_end

----------------------------------------------------------------------------
(* Last properties of the HTTP/1 IoBuffer *)

ReadSide(st) == <<st.is_read_header_end, st.left_read_body_len, st.is_chunked>>

(* C34: while a server is still receiving a request body, neither          *)
(* send_response nor the write half of a poll (poll_write, with its        *)
(* check_finish_status) changes is_read_header_end, left_read_body_len or  *)
(* is_chunked of req_status                                                *)
C34_WriteLeavesReadSide ==
    [][ /\ io.is_server
        /\ io.req_status.is_read_header_end /\ ~io.req_status.is_read_finish
        /\ io.req_status.left_read_body_len > 0
        =>
        /\ hist'.sent # hist.sent => ReadSide(io'.req_status) = ReadSide(io.req_status)
        /\ \A w \in 0..MaxWrite :
              ReadSide(poll_write(io, w).io.req_status) = ReadSide(io.req_status) ]_vars

(* C36: a poll fails with Extension("sender error") only if the receiver   *)
(* of the body it was feeding had been dropped                             *)
C36_SlowConsumerNoError ==
    io # <<>> /\ hist.last.r = "err_sender" => hist.pre.rx_dropped

(* what the read side holds and has not handed out: body bytes of the      *)
(* request being read, or a complete request header                        *)
Undelivered(i) ==
    IF i.req_status.is_read_header_end
    THEN ss_read_data(i.send_stream).bytes # <<>>
    ELSE parse_buffer(i.send_stream.read_buf).r \notin {"partial", "err"}

(* C39: when poll_request reports end-of-stream after a poll that read     *)
(* bytes and then end-of-file from the socket, no complete request and no  *)
(* body data read in that poll is left undelivered                         *)
C39_BytesBeforeEofDelivered ==
    /\ io # <<>> /\ io.is_server
    /\ hist.last.op = "poll_request" /\ hist.last.r = "none"
    /\ hist.pre.avail /\ hist.pre.eof /\ net.in = <<>>
    => ~Undelivered(io)

(* C40: IoBuffer::poll_write returns Pending only when the socket write    *)
(* itself returned Pending, so that a waker is registered: a poll_write    *)
(* that wrote bytes to the socket does not return Pending                  *)
C40_PendingOnlyFromSocket ==
    io # <<>> =>
        \A w \in 0..MaxWrite :
            \E pw \in {poll_write(io, w)} :
                pw.r = "pending" => pw.wrote = <<>> /\ w = 0

----------------------------------------------------------------------------
(* Last properties of the HTTP/2 Control *)

NoRepeat(seq) == \A j, k \in 1..Len(seq) : seq[j] = seq[k] => j = k

(* C37: no stream id is put on ready_queue twice, and no stream has a      *)
(* message built from it twice                                             *)
C37_OneDeliveryPerStream ==
    h2 # <<>> =>
        /\ NoRepeat(h2.eh_log)
        /\ NoRepeat(h2.delivered)
        /\ \A s \in Sids : h2.recv_frames[s] # <<>> => h2.recv_frames[s][1].built <= 1

(* the body of the queued response has ended for good and encode_frames,  *)
(* run on it, neither retires it nor changes it: it is queued again as it  *)
(* is, by every poll from now on                                           *)
Stuck(l) ==
    /\ l.response.body.is_end
    /\ \E e \in {encode_frames(l)} : ~e.isend /\ e.l = l

(* C38: no response in response_queue is re-queued for ever: once its body *)
(* has ended, encode_frames retires it or still has something to do        *)
C38_ResponseRetired ==
    h2 # <<>> => \A k \in 1..Len(h2.response_queue) : ~Stuck(h2.response_queue[k])

====
